---- MODULE Spec2Model ----
(***************************************************************************)
(* Snapshot lifecycle of the EROFS snapshotter (pkg/snapshotter):          *)
(* Prepare / View / Commit / Remove / Cleanup running concurrently over    *)
(* the transactional metadata store and the <root>/snapshots directory.    *)
(***************************************************************************)
EXTENDS Integers, Sequences, FiniteSets, TLC

\* ------------------------------------------------------------------ bounds
\* snapshot ids the metadata store hands out in one behaviour
MaxIds == 3
\* number of process crashes / restarts
MaxCrashes == 1

\* worker threads of the runtime calling into the snapshotter
Procs == {"p1", "p2"}

\* client keys / names (one namespace in the metadata store)
Keys == {"a", "b", "x/extract-1"}

\* keys a client names as parent ("" is no parent)
ParentKeys == {"", "a"}

\* label sets a client can pass as options
extractLabel == "containerd.io/snapshot/erofs.extract"

layerBlobPathLabel == "nexus-erofs-snapshotter/layer-blob-path"

immutableLabel == "nexus-erofs-snapshotter/immutable"

EmptyLabels == [l \in {} |-> ""]

ClientLabels == {EmptyLabels}

VARIABLES
    blockMode,   \* snapshotter.blockMode  (defaultSize > 0)
    setImmutableCfg, \* snapshotter.setImmutable
    fsMergeThreshold, \* snapshotter.fsMergeThreshold (0: fsmerge off)
    db,          \* committed metadata: key -> record
    seq,         \* committed bucket sequence (last id handed out)
    wtx,         \* the single write transaction: owner and working copy
    dirs,        \* <root>/snapshots: directory name -> contents
    proc,        \* call frame of each worker
    overlap,     \* per worker: what ran concurrently with its current call
    crashes,     \* crashes so far
    restart,     \* "fresh" after a crash, "first" while the first call since runs
    crashLeft    \* staging leftovers of Prepare calls cut by the last crash

vars == <<blockMode, setImmutableCfg, fsMergeThreshold, db, seq, wtx, dirs, proc, overlap,
          crashes, restart, crashLeft>>

\* ------------------------------------------------------------ small helpers
IdStr(n) == ToString(n)

NoTx == [owner |-> "none"]

\* staging names os.MkdirTemp can hand out ("new-" + random suffix)
TdNames == {"new-" \o IdStr(n) : n \in 1..(MaxIds + 1)}

TdNum(n) == "new-" \o IdStr(n)

\* variant: a name generator that repeats itself
MkdirTempSame(d) == TdNum(1)

\* os.MkdirTemp(snapshotDir, "new-"): a name no directory has yet
MkdirTempName(d) ==
    TdNum(CHOOSE n \in 1..(MaxIds + 1) :
            /\ TdNum(n) \notin DOMAIN d
            /\ \A m \in 1..(n - 1) : TdNum(m) \in DOMAIN d)

\* contents of a snapshot directory
NewDir(hasFs) ==
    [fs |-> hasFs, blob |-> FALSE, immutable |-> FALSE,
     rwimg |-> FALSE, fsmeta |-> "none",
     mounted |-> {}, lower |-> <<>>]

PutDir(d, n, r) == [x \in DOMAIN d \cup {n} |-> IF x = n THEN r ELSE d[x]]

DelDir(d, n) == [x \in DOMAIN d \ {n} |-> d[x]]

\* variant: a removal that fails and leaves the directory
RemoveAllFails(d, n) == d

\* os.RemoveAll(<root>/snapshots/n): unlinking an IMMUTABLE layer.erofs is
\* refused, everything else in the directory goes
RemoveAll(d, n) ==
    IF n \notin DOMAIN d THEN d
    ELSE IF d[n].blob /\ d[n].immutable
         THEN PutDir(d, n, [d[n] EXCEPT !.fs = FALSE, !.rwimg = FALSE,
                                          !.fsmeta = "none"])
         ELSE DelDir(d, n)

\* variant: the stat of the blob is skipped
lowerPathAny(d, id) == TRUE

\* lowerPath(id): the layer blob of snapshot id exists
lowerPath(d, id) == id \in DOMAIN d /\ d[id].blob

PutKey(m, k, r) == [x \in DOMAIN m \cup {k} |-> IF x = k THEN r ELSE m[x]]

DelKey(m, k) == [x \in DOMAIN m \ {k} |-> m[x]]

\* ------------------------------------------------------- extract keys
\* '/'-separated segments of each key
KeySegments(key) ==
    CASE key = "a" -> <<"a">>
      [] key = "b" -> <<"b">>
      [] key = "x/extract-1" -> <<"x", "extract-1">>
      [] key = "extract-1/foo" -> <<"extract-1", "foo">>
      [] OTHER -> <<key>>

\* segments that start with snapshots.UnpackKeyPrefix ("extract")
UnpackPrefixed == {"extract-1"}

isExtractKey(key) ==
    LET segs == KeySegments(key)
    IN  segs[Len(segs)] \in UnpackPrefixed

isExtractSnapshot(labels) ==
    extractLabel \in DOMAIN labels /\ labels[extractLabel] = "true"

\* createSnapshot appends snapshots.WithLabels({extractLabel: "true"}) to the
\* options of an extract key; WithLabels replaces the label set
\* variant: the options go to the store as the client gave them
optsUnchanged(key, labels) == labels

withExtractLabel(key, labels) ==
    IF isExtractKey(key) THEN [l \in {extractLabel} |-> "true"] ELSE labels

\* --------------------------------------------------------- metadata store
RECURSIVE parents(_, _)
parents(d, parent) ==
    IF parent = "" \/ parent \notin DOMAIN d THEN <<>>
    ELSE <<d[parent].id>> \o parents(d, d[parent].parent)

\* variant: a store that accepts any parent
CreateSnapshotAnyParent(d, s, kind, key, parent, labels) ==
    IF key \in DOMAIN d
    THEN [err |-> "AlreadyExists", db |-> d, seq |-> s, id |-> "", pids |-> <<>>]
    ELSE [err |-> "ok",
          db |-> PutKey(d, key, [id |-> IdStr(s + 1), kind |-> kind,
                                 parent |-> parent, labels |-> labels]),
          seq |-> s + 1,
          id |-> IdStr(s + 1),
          pids |-> parents(d, parent)]

CreateSnapshot(d, s, kind, key, parent, labels) ==
    IF parent # "" /\ parent \notin DOMAIN d
    THEN [err |-> "NotFound", db |-> d, seq |-> s, id |-> "", pids |-> <<>>]
    ELSE IF parent # "" /\ d[parent].kind # "Committed"
    THEN [err |-> "InvalidArgument", db |-> d, seq |-> s, id |-> "", pids |-> <<>>]
    ELSE IF key \in DOMAIN d
    THEN [err |-> "AlreadyExists", db |-> d, seq |-> s, id |-> "", pids |-> <<>>]
    ELSE [err |-> "ok",
          db |-> PutKey(d, key, [id |-> IdStr(s + 1), kind |-> kind,
                                 parent |-> parent, labels |-> labels]),
          seq |-> s + 1,
          id |-> IdStr(s + 1),
          pids |-> parents(d, parent)]

\* variant: a store that removes a record whatever refers to it
StorageRemoveNoCheck(d, key) ==
    IF key \notin DOMAIN d
    THEN [err |-> "NotFound", db |-> d, id |-> "", kind |-> ""]
    ELSE [err |-> "ok", db |-> DelKey(d, key), id |-> d[key].id,
          kind |-> d[key].kind]

StorageRemove(d, key) ==
    IF key \notin DOMAIN d
    THEN [err |-> "NotFound", db |-> d, id |-> "", kind |-> ""]
    ELSE IF \E k \in DOMAIN d : d[k].parent = key
    THEN [err |-> "FailedPrecondition", db |-> d, id |-> "", kind |-> ""]
    ELSE [err |-> "ok", db |-> DelKey(d, key), id |-> d[key].id,
          kind |-> d[key].kind]

CommitActive(d, key, name, labels) ==
    IF name \in DOMAIN d
    THEN [err |-> "AlreadyExists", db |-> d]
    ELSE IF key \notin DOMAIN d
    THEN [err |-> "NotFound", db |-> d]
    ELSE IF d[key].kind # "Active"
    THEN [err |-> "FailedPrecondition", db |-> d]
    ELSE [err |-> "ok",
          db |-> PutKey(DelKey(d, key), name,
                        [d[key] EXCEPT !.kind = "Committed",
                                       !.labels = labels])]

\* storage.IDMap: the ids of all records
IDMap(d) == {d[k].id : k \in DOMAIN d}

\* Stat / Walk as the client sees them (read transaction on committed state)
StatOk(key) == key \in DOMAIN db

WalkCount == Cardinality(DOMAIN db)

\* ------------------------------------------------------------ call frames
Frame0 ==
    [pc |-> "done", op |-> "none", kind |-> "", key |-> "", parent |-> "",
     name |-> "", labels |-> EmptyLabels, td |-> "", path |-> "", id |-> "",
     pids |-> <<>>, err |-> "ok", removals |-> {}, ids |-> {}, kept |-> {},
     committed |-> FALSE, fresh |-> FALSE, pre |-> FALSE,
     peer |-> "", rival |-> FALSE, opts |-> EmptyLabels, mounts |-> <<>>,
     entries |-> <<>>, busy |-> {}, stuck |-> {}, calls |-> <<>>,
     logged |-> "ok", meta |-> "none",
     digests |-> <<>>, encoded |-> <<>>, decoded |-> <<>>,
     files |-> {}, outside |-> FALSE, blobLabel |-> "", found |-> "",
     config |-> <<>>, host |-> <<>>, ms |-> FALSE, snapshotsDir |-> FALSE,
     converted |-> FALSE, mtab0 |-> {}, made |-> <<>>, fault |-> FALSE]

InFlight(p) == proc[p].pc # "done"

\* a call that has just returned is observed before anything else moves
NoReturn == \A q \in Procs : proc[q].pc # "ret"

\* an external tool or syscall (mkdir, mkfs.ext4, mkfs.erofs) may fail
FaultChoices == BOOLEAN

\* bookkeeping of a call that starts: operation budget and who overlaps whom
\* cls is "prepare" for Prepare/View and "other" for the rest
OverlapOf(p, cls, key) ==
    [q \in Procs |->
        IF q = p
        THEN IF \A r \in Procs \ {p} : ~InFlight(r) THEN "none"
             ELSE IF cls = "prepare" /\
                     \A r \in Procs \ {p} :
                        InFlight(r) =>
                          /\ proc[r].op \in {"Prepare", "View"}
                          /\ proc[r].key # key
                          /\ overlap[r] # "any"
                  THEN "prepares" ELSE "any"
        ELSE IF ~InFlight(q) THEN overlap[q]
             ELSE IF cls = "prepare" /\ proc[q].op \in {"Prepare", "View"}
                     /\ proc[q].key # key /\ overlap[q] # "any"
                  THEN "prepares" ELSE "any"]

Begin(p, cls, key) ==
    /\ NoReturn
    /\ proc[p].pc = "done"
    /\ overlap' = OverlapOf(p, cls, key)
    /\ restart' = IF restart = "fresh" THEN "first" ELSE restart

Init ==
    /\ blockMode \in BOOLEAN
    /\ setImmutableCfg \in BOOLEAN
    /\ fsMergeThreshold = 0
    /\ db = [k \in {} |-> 0]
    /\ seq = 0
    /\ wtx = NoTx
    /\ dirs = [n \in {} |-> 0]
    /\ proc = [p \in Procs |-> Frame0]
    /\ overlap = [p \in Procs |-> "none"]
    /\ crashes = 0
    /\ restart = "none"
    /\ crashLeft = {}

\* ------------------------------------------------- Prepare / View
\* the deferred cleanup of createSnapshot on error: RemoveAll(td), RemoveAll(path)
\* variant: a deferred cleanup that forgets the final path
deferCleanupTdOnly(d, td, path) ==
    IF td # "" THEN RemoveAll(d, td) ELSE d

deferCleanup(d, td, path) ==
    LET d1 == IF td # "" THEN RemoveAll(d, td) ELSE d
    IN  IF path # "" THEN RemoveAll(d1, path) ELSE d1

CreatesInFlight ==
    Cardinality({q \in Procs : proc[q].op \in {"Prepare", "View"} /\ InFlight(q)})

\* createSnapshot up to prepareDirectory: os.MkdirTemp, then mkdir fs
\* (work/ and the marker file carry no decision of the lifecycle);
\* a failed mkdir of fs returns td and the deferred cleanup removes it
CsStart(p, kind, key, parent, labels, f) ==
    /\ Begin(p, "prepare", key)
    /\ seq + CreatesInFlight < MaxIds
    /\ LET td == MkdirTempName(dirs)
           fr == [Frame0 EXCEPT !.op = IF kind = "Active" THEN "Prepare" ELSE "View",
                                !.kind = kind, !.key = key, !.parent = parent,
                                !.opts = labels,
                                !.labels = withExtractLabel(key, labels),
                                !.fresh = key \notin DOMAIN db,
                                !.pre = /\ key \notin DOMAIN db
                                        /\ parent \in DOMAIN db
                                        /\ db[parent].kind = "Committed"
                                        /\ lowerPath(dirs, db[parent].id)
                                        /\ dirs[db[parent].id].fs]
       IN  IF f
           THEN /\ dirs' = dirs
                /\ proc' = [proc EXCEPT ![p] = [fr EXCEPT !.pc = "ret", !.err = "EIO"]]
           ELSE /\ dirs' = PutDir(dirs, td, NewDir(TRUE))
                /\ proc' = [proc EXCEPT ![p] = [fr EXCEPT !.pc = "cs_tx", !.td = td]]
    /\ UNCHANGED <<blockMode, setImmutableCfg, fsMergeThreshold, db, seq, wtx, crashes, crashLeft>>

DirEmpty(r) == ~r.fs /\ ~r.blob /\ ~r.rwimg

\* fmt.Errorf("failed to create snapshot: %w", err): the wrapped error keeps
\* its errdefs class
\* variant: wrapping with %v, which drops the class
wrappedOpaque(e) == "Unknown"

wrapped(e) == e

\* upperDirectoryPermission(td/fs, upperPath(ParentIDs[0])): stat + lchown
chownOk(d, td, pids) ==
    Len(pids) > 0 =>
        /\ pids[1] \in DOMAIN d /\ d[pids[1]].fs
        /\ td \in DOMAIN d /\ d[td].fs

\* os.Rename(td, path): the target may only be an empty directory
renameOk(d, td, path) ==
    /\ td \in DOMAIN d
    /\ (path \in DOMAIN d => DirEmpty(d[path]))

\* the callback of the write transaction: storage.CreateSnapshot,
\* storage.GetInfo, upperDirectoryPermission, os.Rename(td, path).  An error
\* rolls the transaction back and the deferred cleanup removes td and, once
\* it is set, path
CsTx(p) ==
    /\ NoReturn
    /\ proc[p].pc = "cs_tx"
    /\ wtx.owner = "none"
    /\ LET fr == proc[p]
           r == CreateSnapshot(db, seq, fr.kind, fr.key, fr.parent, fr.labels)
       IN  IF r.err # "ok"
           THEN /\ wtx' = NoTx
                /\ dirs' = deferCleanup(dirs, fr.td, "")
                /\ proc' = [proc EXCEPT ![p].pc = "ret", ![p].err = wrapped(r.err)]
           ELSE IF ~chownOk(dirs, fr.td, r.pids)
           THEN /\ wtx' = NoTx
                /\ dirs' = deferCleanup(dirs, fr.td, "")
                /\ proc' = [proc EXCEPT ![p].pc = "ret", ![p].err = "Chown"]
           ELSE IF ~renameOk(dirs, fr.td, r.id)
           THEN /\ wtx' = NoTx
                /\ dirs' = deferCleanup(dirs, fr.td, r.id)
                /\ proc' = [proc EXCEPT ![p].pc = "ret", ![p].err = "Rename",
                                        ![p].path = r.id]
           ELSE /\ wtx' = [owner |-> p, db |-> r.db, seq |-> r.seq]
                /\ dirs' = PutDir(DelDir(dirs, fr.td), r.id, dirs[fr.td])
                /\ proc' = [proc EXCEPT ![p].id = r.id, ![p].pids = r.pids,
                                        ![p].path = r.id, ![p].td = "",
                                        ![p].pc = "cs_commit"]
    /\ UNCHANGED <<blockMode, setImmutableCfg, fsMergeThreshold, db, seq, overlap,
                   crashes, restart, crashLeft>>

\* the callback returned nil: the transaction commits
CsCommit(p) ==
    /\ NoReturn
    /\ proc[p].pc = "cs_commit"
    /\ wtx.owner = p
    /\ db' = wtx.db
    /\ seq' = wtx.seq
    /\ wtx' = NoTx
    /\ proc' = [proc EXCEPT ![p].committed = TRUE, ![p].pc = "cs_post"]
    /\ UNCHANGED <<blockMode, setImmutableCfg, fsMergeThreshold, dirs, overlap,
                   crashes, restart, crashLeft>>

\* ---------------------------------------------------------- mount planner
\* paths below <root>
layerBlobPath(id) == "snapshots/" \o id \o "/layer.erofs"

fsMetaPath(id) == "snapshots/" \o id \o "/fsmeta.erofs"

upperPath(id) == "snapshots/" \o id \o "/fs"

workPath(id) == "snapshots/" \o id \o "/work"

writablePath(id) == "snapshots/" \o id \o "/rwlayer.img"

\* snapshotter.ovlOptions: no extra overlay options are configured
ovlOptions == <<>>

\* mount.Mount{Source, Type, Options}; an option is a flag ("ro"), a
\* name=path pair, or the lowerdir template over the mounts first..last
\* (indexes count from 0 as in the mount list handed to the runtime)
Flag(n) == [name |-> n, path |-> "", first |-> 0, last |-> 0]

PathOpt(n, path) == [name |-> n, path |-> path, first |-> 0, last |-> 0]

LowerOpt(form, i, j) == [name |-> "lowerdir", path |-> form, first |-> i, last |-> j]

Mount(type, source, options) ==
    [type |-> type, source |-> source, options |-> options]

erofsMount(blob) == Mount("erofs", blob, <<Flag("ro"), Flag("loop")>>)

Planned(ms) == [err |-> "ok", mounts |-> ms]

PlanError(e) == [err |-> e, mounts |-> <<>>]

\* mountFsMeta(snap, i): the fsmeta of parent i is usable when fsmerge is
\* possible (never in block mode), the file is not empty and every blob from
\* the oldest parent up to parent i exists
RECURSIVE deviceOpts(_, _, _)
deviceOpts(pids, j, i) ==
    IF j < i THEN <<>>
    ELSE <<PathOpt("device", layerBlobPath(pids[j]))>> \o deviceOpts(pids, j - 1, i)

fsMetaUsable(d, pids, i) ==
    /\ ~blockMode
    /\ pids[i] \in DOMAIN d /\ d[pids[i]].fsmeta = "ready"
    /\ \A j \in i..Len(pids) : lowerPath(d, pids[j])

\* variant: the device options start at parent i, the newest covered layer
mountFsMetaNewestFirst(pids, i) ==
    Mount("erofs", fsMetaPath(pids[i]),
          <<Flag("ro"), Flag("loop")>> \o
          [k \in 1..(Len(pids) + 1 - i) |->
              PathOpt("device", layerBlobPath(pids[i + k - 1]))])

mountFsMeta(pids, i) ==
    Mount("erofs", fsMetaPath(pids[i]),
          <<Flag("ro"), Flag("loop")>> \o deviceOpts(pids, Len(pids), i))

\* the ext4 mount of rwlayer.img, or the mkfs/ext4 transformer when the
\* image was not created yet
writableMount(d, id, roFlag) ==
    IF id \in DOMAIN d /\ d[id].rwimg
    THEN Mount("ext4", writablePath(id), <<Flag(roFlag), Flag("loop")>>)
    ELSE Mount("mkfs/ext4", writablePath(id),
               <<Flag("X-containerd.mkfs.fs=ext4"), Flag("X-containerd.mkfs.size"),
                 Flag(roFlag), Flag("loop")>>)

\* variant: the blob of a parentless snapshot is served whatever its kind
singleLayerMountsAnyKind(d, kind, id) ==
    IF lowerPath(d, id) THEN Planned(<<erofsMount(layerBlobPath(id))>>)
    ELSE PlanError("NoLayer")

\* singleLayerMounts: a snapshot without parents
singleLayerMounts(d, kind, id) ==
    IF lowerPath(d, id)
    THEN IF kind # "View" THEN PlanError("NotView")
         ELSE Planned(<<erofsMount(layerBlobPath(id))>>)
    ELSE LET roFlag == IF kind = "View" THEN "ro" ELSE "rw"
         IN  IF blockMode
             THEN Planned(<<writableMount(d, id, roFlag),
                            Mount("format/mkdir/bind", "{{ mount 0 }}/upper",
                                  <<PathOpt("X-containerd.mkdir.path",
                                            "{{ mount 0 }}/upper:0755"),
                                    Flag(roFlag), Flag("rbind")>>)>>)
             ELSE Planned(<<Mount("bind", upperPath(id),
                                  <<Flag(roFlag), Flag("rbind")>>)>>)

\* activeLayerMounts: the writable part of an Active snapshot with parents
activeLayerMounts(d, id) ==
    IF blockMode
    THEN [mounts |-> <<writableMount(d, id, "rw")>>,
          options |-> <<PathOpt("X-containerd.mkdir.path", "{{ mount 0 }}/upper:0755"),
                        PathOpt("X-containerd.mkdir.path", "{{ mount 0 }}/work:0755"),
                        PathOpt("workdir", "{{ mount 0 }}/work"),
                        PathOpt("upperdir", "{{ mount 0 }}/upper")>>]
    ELSE [mounts |-> <<>>,
          options |-> <<PathOpt("workdir", workPath(id)),
                        PathOpt("upperdir", upperPath(id))>>]

\* the loop of templateMounts over snap.ParentIDs (i counts from 1 here):
\* one erofs mount per parent until a usable fsmeta ends the loop, which
\* also moves first to the fsmeta mount
RECURSIVE lowerMounts(_, _, _, _, _)
lowerMounts(d, pids, i, ms, first) ==
    IF i > Len(pids) THEN [err |-> "ok", mounts |-> ms, first |-> first]
    ELSE IF fsMergeThreshold > 0 /\ fsMetaUsable(d, pids, i)
    THEN [err |-> "ok", mounts |-> Append(ms, mountFsMeta(pids, i)),
          first |-> Len(ms)]
    ELSE IF ~lowerPath(d, pids[i])
    THEN [err |-> "BlobMissing", mounts |-> <<>>, first |-> first]
    ELSE lowerMounts(d, pids, i + 1,
                     Append(ms, erofsMount(layerBlobPath(pids[i]))), first)

templateMounts(d, kind, id, pids) ==
    IF Len(pids) = 0 THEN singleLayerMounts(d, kind, id)
    ELSE IF kind # "Active" /\ Len(pids) = 1
    THEN IF lowerPath(d, pids[1])
         THEN Planned(<<erofsMount(layerBlobPath(pids[1]))>>)
         ELSE PlanError("BlobMissing")
    ELSE LET a == IF kind = "Active" THEN activeLayerMounts(d, id)
                  ELSE [mounts |-> <<>>, options |-> <<>>]
             r == lowerMounts(d, pids, 1, a.mounts, Len(a.mounts))
             last == Len(r.mounts) - 1
             lower == IF last - r.first = 0
                      THEN LowerOpt("mount", r.first, r.first)
                      ELSE LowerOpt("overlay", r.first, last)
             ro == IF kind = "View" THEN <<Flag("ro")>> ELSE <<>>
         IN  IF r.err # "ok" THEN PlanError(r.err)
             ELSE IF last - r.first = 0 /\ kind = "View" THEN Planned(r.mounts)
             ELSE Planned(Append(r.mounts,
                                 Mount("format/mkdir/overlay", "overlay",
                                       a.options \o <<lower>> \o ro \o ovlOptions)))

\* diffMounts: the bind mount of the upper directory
diffMounts(id) ==
    Planned(<<Mount("bind", upperPath(id), <<Flag("rw"), Flag("rbind")>>)>>)

\* mounts(): the diff mount for block-mode extract snapshots, else the template
usesDiffMounts(kind, labels) ==
    blockMode /\ kind = "Active" /\ isExtractSnapshot(labels)

mounts(d, kind, id, pids, labels) ==
    IF usesDiffMounts(kind, labels) THEN diffMounts(id)
    ELSE templateMounts(d, kind, id, pids)

\* error result of templateMounts and of mounts
templateMountsErr(d, kind, id, pids) == templateMounts(d, kind, id, pids).err

mountsErr(d, kind, id, pids, labels) == mounts(d, kind, id, pids, labels).err

\* diffMounts creates <id>/fs (os.MkdirAll) before it answers
diffMountsDirs(d, id) ==
    IF id \in DOMAIN d THEN [d EXCEPT ![id].fs = TRUE]
    ELSE PutDir(d, id, NewDir(TRUE))

\* variant: aggregation from the threshold on
fsMetaWantedAtThreshold(n) == ~(fsMergeThreshold = 0 \/ n < fsMergeThreshold)

\* generateFsMeta goes on when the chain is longer than the threshold
fsMetaWanted(n) == ~(fsMergeThreshold = 0 \/ n <= fsMergeThreshold)

\* variant: O_CREATE without O_EXCL opens a placeholder that is there
openPlaceholderNoExcl(d, id) == id \in DOMAIN d

\* os.OpenFile(fsMetaPath(id), O_CREATE|O_EXCL): succeeds when the directory
\* is there and the file is not
openPlaceholder(d, id) == id \in DOMAIN d /\ d[id].fsmeta = "none"

\* the empty placeholder the successful open leaves
createPlaceholder(d, id) == [d EXCEPT ![id].fsmeta = "empty"]

\* after the placeholder: os.Stat of every blob, mkfs.erofs into
\* fsmeta.erofs.tmp, os.Rename onto the placeholder; g is a failing
\* mkfs.erofs or rename.  Every failure returns: the placeholder stays
mergeLayers(d, pids, g) ==
    IF pids[1] \notin DOMAIN d THEN d
    ELSE IF g \/ \E i \in 1..Len(pids) : ~lowerPath(d, pids[i])
    THEN [d EXCEPT ![pids[1]].fsmeta = "empty"]
    ELSE [d EXCEPT ![pids[1]].fsmeta = "ready"]

\* generateFsMeta(snapIDs): beyond the threshold, an exclusive create of the
\* placeholder fsmeta.erofs of the newest parent, then mkfs.erofs over all
\* blobs; a missing blob or a failing tool (g) leaves the empty placeholder
generateFsMeta(d, pids, g) ==
    IF ~fsMetaWanted(Len(pids)) THEN d
    ELSE IF ~openPlaceholder(d, pids[1]) THEN d
    ELSE mergeLayers(createPlaceholder(d, pids[1]), pids, g)

\* after the transaction: generateFsMeta unless the key is an extract key,
\* createWritableLayer for block-mode Active snapshots that are no extract
\* snapshots (os.Create + Truncate + mkfs.ext4 on rwlayer.img; f is a failing
\* mkfs.ext4), then return s.mounts(snap, info).
\* Either error runs the deferred cleanup, which removes path
needsWritableLayer(kind, key) ==
    kind = "Active" /\ blockMode /\ ~isExtractKey(key)

CsPost(p, f, g) ==
    /\ NoReturn
    /\ proc[p].pc = "cs_post"
    /\ LET fr == proc[p]
           dm == IF isExtractKey(fr.key) THEN dirs
                 ELSE generateFsMeta(dirs, fr.pids, g)
           w == needsWritableLayer(fr.kind, fr.key)
           wOk == fr.path \in DOMAIN dm /\ ~f
           d0 == IF w /\ wOk THEN [dm EXCEPT ![fr.path].rwimg = TRUE] ELSE dm
           r == mounts(d0, fr.kind, fr.id, fr.pids, fr.labels)
           d1 == IF usesDiffMounts(fr.kind, fr.labels)
                 THEN diffMountsDirs(d0, fr.id) ELSE d0
       IN  IF w /\ ~wOk
           THEN /\ dirs' = deferCleanup(dm, fr.td, fr.path)
                /\ proc' = [proc EXCEPT ![p].pc = "ret", ![p].err = "WritableLayer"]
           ELSE /\ dirs' = IF r.err = "ok" THEN d1 ELSE deferCleanup(d1, fr.td, fr.path)
                /\ proc' = [proc EXCEPT ![p].err = r.err, ![p].mounts = r.mounts,
                                        ![p].pc = "ret"]
    /\ UNCHANGED <<blockMode, setImmutableCfg, fsMergeThreshold, db, seq, wtx, overlap,
                   crashes, restart, crashLeft>>

\* the caller has seen the result; the worker is free again
Return(p) ==
    /\ proc[p].pc = "ret"
    /\ proc' = [q \in Procs |->
                  IF q = p THEN Frame0
                  ELSE IF /\ proc[p].op \in {"Prepare", "View"}
                          /\ proc[p].err = "ok"
                          /\ proc[q].op \in {"Prepare", "View"}
                       THEN [proc[q] EXCEPT !.peer = proc[p].key]
                       ELSE proc[q]]
    /\ overlap' = [overlap EXCEPT ![p] = "none"]
    /\ restart' = IF restart = "first" THEN "none" ELSE restart
    /\ crashLeft' = IF restart = "first" THEN {} ELSE crashLeft
    /\ UNCHANGED <<blockMode, setImmutableCfg, fsMergeThreshold, db, seq, wtx, dirs, crashes>>

\* ---------------------------------------------------------------- Commit
\* setImmutable(layerBlob, true) when configured; a failure is only logged
withImmutable(d, id) ==
    IF setImmutableCfg /\ id \in DOMAIN d /\ d[id].blob
    THEN [d EXCEPT ![id].immutable = TRUE] ELSE d

\* read transaction of Commit (storage.GetInfo gives the snapshot id), then
\* os.Stat(layerBlob): a blob at the conventional path is used as it is
CStart(p, name, key, labels) ==
    /\ Begin(p, "other", key)
    /\ LET fr == [Frame0 EXCEPT !.op = "Commit", !.key = key, !.name = name,
                                !.labels = labels]
           id == db[key].id
       IN  IF key \notin DOMAIN db
           THEN /\ proc' = [proc EXCEPT ![p] =
                              [fr EXCEPT !.pc = "ret", !.err = "NotFound"]]
                /\ dirs' = dirs
           ELSE IF lowerPath(dirs, id)
           THEN /\ proc' = [proc EXCEPT ![p] = [fr EXCEPT !.pc = "c_tx", !.id = id]]
                /\ dirs' = withImmutable(dirs, id)
           ELSE /\ proc' = [proc EXCEPT ![p] =
                              [fr EXCEPT !.pc = "c_convert", !.id = id]]
                /\ dirs' = dirs
    /\ UNCHANGED <<blockMode, setImmutableCfg, fsMergeThreshold, db, seq, wtx,
                   crashes, crashLeft>>

\* commitBlock: convertDirToErofs of the upper directory (of <id>/fs, or of
\* the mounted rwlayer.img, which is unmounted again before it returns);
\* mkfs.erofs fails when its source directory is gone or the tool fails
CConvert(p, f) ==
    /\ NoReturn
    /\ proc[p].pc = "c_convert"
    /\ LET id == proc[p].id
           src == id \in DOMAIN dirs /\ (dirs[id].fs \/ dirs[id].rwimg)
       IN  IF src /\ ~f
           THEN /\ dirs' = withImmutable([dirs EXCEPT ![id].blob = TRUE], id)
                /\ proc' = [proc EXCEPT ![p].pc = "c_tx", ![p].converted = TRUE]
           ELSE /\ dirs' = dirs
                /\ proc' = [proc EXCEPT ![p].pc = "ret",
                                        ![p].err = IF f THEN "EIO" ELSE "Conversion"]
    /\ UNCHANGED <<blockMode, setImmutableCfg, fsMergeThreshold, db, seq, wtx, overlap, crashes, restart, crashLeft>>

\* os.Stat(layerBlob) at the head of the write transaction of Commit
\* variant: no stat, the transaction goes straight to storage.CommitActive
statLayerBlobSkipped(d, id) == TRUE

statLayerBlob(d, id) == lowerPath(d, id)

\* write transaction of Commit: os.Stat(layerBlob), storage.CommitActive,
\* commit
CTx(p) ==
    /\ NoReturn
    /\ proc[p].pc = "c_tx"
    /\ wtx.owner = "none"
    /\ LET fr == proc[p]
           r == CommitActive(db, fr.key, fr.name, fr.labels)
           e == IF ~statLayerBlob(dirs, fr.id) THEN "BlobMissing" ELSE r.err
       IN  /\ db' = IF e = "ok" THEN r.db ELSE db
           /\ proc' = [q \in Procs |->
                         IF q = p
                         THEN [fr EXCEPT !.pc = "ret", !.err = e,
                                         !.committed = (e = "ok")]
                         ELSE IF e = "ok" /\ proc[q].op = "Commit"
                                 /\ proc[q].key = fr.key
                              THEN [proc[q] EXCEPT !.rival = TRUE]
                              ELSE proc[q]]
    /\ UNCHANGED <<blockMode, setImmutableCfg, fsMergeThreshold, seq, wtx, dirs, overlap,
                   crashes, restart, crashLeft>>

\* ---------------------------------------------------------------- Remove
\* directories under <root>/snapshots whose name is no id of the store
\* variant: only staging names are listed
getCleanupDirectoriesStaging(ids, d) == {n \in DOMAIN d \cap TdNames : n \notin ids}

getCleanupDirectories(ids, d) == {n \in DOMAIN d : n \notin ids}

\* variant: the error of setImmutable is dropped, as Cleanup drops it
clearFailsIgnored(d, id, f) == FALSE

\* setImmutable(layerBlobPath(id), false) fails: the blob cannot be opened,
\* or (f) the ioctl is refused
clearFails(d, id, f) == f \/ ~lowerPath(d, id)

\* write transaction of Remove: storage.Remove, getCleanupDirectories, for a
\* Committed snapshot setImmutable(layerBlobPath(id), false), commit; when
\* clearing the attribute fails the transaction rolls back
RemoveTx(p, key, f) ==
    /\ Begin(p, "other", key)
    /\ wtx.owner = "none"
    /\ LET fr == [Frame0 EXCEPT !.op = "Remove", !.key = key, !.fault = f]
           r == StorageRemove(db, key)
       IN  IF r.err # "ok"
           THEN /\ proc' = [proc EXCEPT ![p] = [fr EXCEPT !.pc = "ret", !.err = r.err]]
                /\ UNCHANGED <<db, dirs>>
           ELSE IF r.kind = "Committed" /\ clearFails(dirs, r.id, f)
           THEN /\ proc' = [proc EXCEPT ![p] =
                              [fr EXCEPT !.pc = "ret", !.err = "ClearImmutable"]]
                /\ UNCHANGED <<db, dirs>>
           ELSE /\ db' = r.db
                /\ dirs' = IF r.kind = "Committed" /\ ~f /\ lowerPath(dirs, r.id)
                           THEN [dirs EXCEPT ![r.id].immutable = FALSE] ELSE dirs
                /\ proc' = [proc EXCEPT ![p] =
                              [fr EXCEPT !.pc = "r_rm", !.id = r.id,
                                         !.kind = r.kind, !.committed = TRUE,
                                         !.removals =
                                            getCleanupDirectories(IDMap(r.db), dirs)]]
    /\ UNCHANGED <<blockMode, setImmutableCfg, fsMergeThreshold, seq, wtx, crashes, crashLeft>>

\* Remove on a host where the ioctl works
RTx(p, key) == RemoveTx(p, key, FALSE)

RECURSIVE RemoveEach(_, _)
RemoveEach(d, ns) ==
    IF ns = {} THEN d
    ELSE LET n == CHOOSE x \in ns : TRUE
         IN  RemoveEach(RemoveAll(d, n), ns \ {n})

\* --------------------------------------------------------------- Cleanup
\* read transaction of Cleanup: storage.IDMap sees the committed store
ClStart(p) ==
    /\ Begin(p, "other", "")
    /\ proc' = [proc EXCEPT ![p] = [Frame0 EXCEPT !.op = "Cleanup",
                                                  !.pc = "cl_list",
                                                  !.ids = IDMap(db)]]
    /\ UNCHANGED <<blockMode, setImmutableCfg, fsMergeThreshold, db, seq, wtx, dirs, crashes, crashLeft>>

\* Readdirnames of <root>/snapshots against the id map
ClList(p) ==
    /\ NoReturn
    /\ proc[p].pc = "cl_list"
    /\ proc' = [proc EXCEPT ![p].pc = "cl_rm",
                            ![p].removals = getCleanupDirectories(proc[p].ids, dirs),
                            ![p].kept = DOMAIN dirs \cap proc[p].ids]
    /\ UNCHANGED <<blockMode, setImmutableCfg, fsMergeThreshold, db, seq, wtx, dirs, overlap,
                   crashes, restart, crashLeft>>

\* setImmutable(<dir>/layer.erofs, false) before os.RemoveAll(dir)
\* variant: the attribute is left as it is
clearImmutableNoop(d, n) == d

clearImmutable(d, n) ==
    IF n \in DOMAIN d THEN [d EXCEPT ![n].immutable = FALSE] ELSE d

RECURSIVE CleanupEach(_, _)
CleanupEach(d, ns) ==
    IF ns = {} THEN d
    ELSE LET n == CHOOSE x \in ns : TRUE
         IN  CleanupEach(RemoveAll(clearImmutable(d, n), n), ns \ {n})

ClRm(p) ==
    /\ NoReturn
    /\ proc[p].pc = "cl_rm"
    /\ dirs' = CleanupEach(dirs, proc[p].removals)
    /\ proc' = [proc EXCEPT ![p].pc = "ret"]
    /\ UNCHANGED <<blockMode, setImmutableCfg, fsMergeThreshold, db, seq, wtx, overlap, crashes, restart, crashLeft>>

\* ------------------------------------------------------ Mounts / Update
\* storage.GetSnapshot: id, kind and parent ids of a record
GetSnapshot(d, key) ==
    IF key \notin DOMAIN d
    THEN [err |-> "NotFound", id |-> "", kind |-> "", pids |-> <<>>]
    ELSE [err |-> "ok", id |-> d[key].id, kind |-> d[key].kind,
          pids |-> parents(d, d[key].parent)]

\* storage.UpdateInfo with the labels fieldpath: the labels are replaced
UpdateInfo(d, key, labels) ==
    IF key \notin DOMAIN d THEN [err |-> "NotFound", db |-> d]
    ELSE [err |-> "ok", db |-> [d EXCEPT ![key].labels = labels]]

\* Mounts(key): read transaction (GetSnapshot, GetInfo), then s.mounts
Mounts(p, key) ==
    /\ Begin(p, "other", key)
    /\ LET fr == [Frame0 EXCEPT !.op = "Mounts", !.key = key, !.pc = "ret"]
           g == GetSnapshot(db, key)
           r == mounts(dirs, g.kind, g.id, g.pids, db[key].labels)
       IN  IF g.err # "ok"
           THEN /\ proc' = [proc EXCEPT ![p] = [fr EXCEPT !.err = g.err]]
                /\ dirs' = dirs
           ELSE /\ proc' = [proc EXCEPT ![p] =
                              [fr EXCEPT !.kind = g.kind, !.id = g.id,
                                         !.pids = g.pids, !.parent = db[key].parent,
                                         !.labels = db[key].labels,
                                         !.err = r.err, !.mounts = r.mounts]]
                /\ dirs' = IF usesDiffMounts(g.kind, db[key].labels)
                           THEN diffMountsDirs(dirs, g.id) ELSE dirs
    /\ UNCHANGED <<blockMode, setImmutableCfg, fsMergeThreshold, db, seq, wtx,
                   crashes, crashLeft>>

\* Update(info, "labels"): one write transaction around storage.UpdateInfo
Update(p, key, labels) ==
    /\ Begin(p, "other", key)
    /\ wtx.owner = "none"
    /\ LET r == UpdateInfo(db, key, labels)
       IN  /\ db' = r.db
           /\ proc' = [proc EXCEPT ![p] =
                         [Frame0 EXCEPT !.op = "Update", !.key = key, !.pc = "ret",
                                        !.opts = labels, !.err = r.err]]
    /\ UNCHANGED <<blockMode, setImmutableCfg, fsMergeThreshold, seq, wtx, dirs,
                   crashes, crashLeft>>

\* --------------------------------------------------------- Stat / Usage
\* variant: a missing key gives the zero Info and no error
GetInfoZero(d, key) ==
    IF key \notin DOMAIN d THEN [err |-> "ok", id |-> "", kind |-> ""]
    ELSE [err |-> "ok", id |-> d[key].id, kind |-> d[key].kind]

\* storage.GetInfo: id and Info of a record
GetInfo(d, key) ==
    IF key \notin DOMAIN d THEN [err |-> "NotFound", id |-> "", kind |-> ""]
    ELSE [err |-> "ok", id |-> d[key].id, kind |-> d[key].kind]

\* Stat(key): one read transaction around storage.GetInfo
Stat(p, key) ==
    /\ Begin(p, "other", key)
    /\ LET g == GetInfo(db, key)
       IN  proc' = [proc EXCEPT ![p] =
                      [Frame0 EXCEPT !.op = "Stat", !.key = key, !.pc = "ret",
                                     !.id = g.id, !.kind = g.kind, !.err = g.err]]
    /\ UNCHANGED <<blockMode, setImmutableCfg, fsMergeThreshold, db, seq, wtx, dirs,
                   crashes, crashLeft>>

\* Usage(key): storage.GetInfo in a read transaction; for an Active snapshot
\* fs.DiskUsage(upperPath(id)), which fails when the directory is gone
Usage(p, key) ==
    /\ Begin(p, "other", key)
    /\ LET g == GetInfo(db, key)
           e == IF g.err # "ok" THEN g.err
                ELSE IF g.kind = "Active" /\ ~(g.id \in DOMAIN dirs /\ dirs[g.id].fs)
                THEN "DiskUsage" ELSE "ok"
       IN  proc' = [proc EXCEPT ![p] =
                      [Frame0 EXCEPT !.op = "Usage", !.key = key, !.pc = "ret",
                                     !.id = g.id, !.kind = g.kind, !.err = e]]
    /\ UNCHANGED <<blockMode, setImmutableCfg, fsMergeThreshold, db, seq, wtx, dirs,
                   crashes, crashLeft>>

\* ------------------------------------------------------ unmount helpers
\* the error of mount.UnmountAll(target, flags)
UnmountErr(target, flags) == "unmount " \o target \o " flags " \o flags

UnmountCall(target, flags) == [target |-> target, flags |-> flags]

\* variant: a lazy unmount that works hides the failure
unmountAllLazyWins(target, busy, stuck) ==
    IF target \notin busy
    THEN [err |-> "ok", calls |-> <<UnmountCall(target, "0")>>]
    ELSE [err |-> IF target \in stuck THEN UnmountErr(target, "0") ELSE "ok",
          calls |-> <<UnmountCall(target, "0"), UnmountCall(target, "MNT_DETACH")>>]

\* unmountAll(target): mount.UnmountAll(target, 0) and, when it fails, the
\* fallback mount.UnmountAll(target, MNT_DETACH).  busy: the targets whose
\* normal unmount fails; stuck: those whose lazy unmount fails as well
unmountAll(target, busy, stuck) ==
    IF target \notin busy
    THEN [err |-> "ok", calls |-> <<UnmountCall(target, "0")>>]
    ELSE IF target \in stuck
    THEN [err |-> UnmountErr(target, "0"),
          calls |-> <<UnmountCall(target, "0"), UnmountCall(target, "MNT_DETACH")>>]
    ELSE [err |-> UnmountErr(target, "0"),
          calls |-> <<UnmountCall(target, "0"), UnmountCall(target, "MNT_DETACH")>>]

\* the targets of cleanupActiveMounts in the order it visits them: merged,
\* the directories os.ReadDir(lower) lists (sorted by name, files skipped), rw.
\* entries is the listing of <upper>/lower: a sequence of [name, isDir]
RECURSIVE lowerTargets(_, _)
lowerTargets(upper, entries) ==
    IF entries = <<>> THEN <<>>
    ELSE (IF Head(entries).isDir
          THEN <<upper \o "/lower/" \o Head(entries).name>> ELSE <<>>)
         \o lowerTargets(upper, Tail(entries))

cleanupTargets(upper, entries) ==
    <<upper \o "/merged">> \o lowerTargets(upper, entries) \o <<upper \o "/rw">>

\* variant: the cleanup stops at the first unmount that fails
RECURSIVE unmountUntilError(_, _, _)
unmountUntilError(targets, busy, stuck) ==
    IF targets = <<>> THEN [err |-> "ok", calls |-> <<>>]
    ELSE LET u == unmountAll(Head(targets), busy, stuck)
             rest == unmountUntilError(Tail(targets), busy, stuck)
         IN  IF u.err # "ok" THEN u
             ELSE [err |-> rest.err, calls |-> u.calls \o rest.calls]

\* unmountAll on each target in turn, keeping the last error
RECURSIVE unmountEach(_, _, _)
unmountEach(targets, busy, stuck) ==
    IF targets = <<>> THEN [err |-> "ok", calls |-> <<>>]
    ELSE LET u == unmountAll(Head(targets), busy, stuck)
             rest == unmountEach(Tail(targets), busy, stuck)
         IN  [err |-> IF rest.err # "ok" THEN rest.err ELSE u.err,
              calls |-> u.calls \o rest.calls]

\* variant of the cleanup that gives up at the first failure
cleanupActiveMountsFailFast(upper, entries, busy, stuck) ==
    unmountUntilError(cleanupTargets(upper, entries), busy, stuck)

\* cleanupActiveMounts(upper): merged, the lower directories, rw
cleanupActiveMounts(upper, entries, busy, stuck) ==
    unmountEach(cleanupTargets(upper, entries), busy, stuck)

\* a call of the block-mode cleanup
CleanupActiveMounts(p, id, entries, busy, stuck) ==
    /\ Begin(p, "other", "")
    /\ LET r == cleanupActiveMounts(upperPath(id), entries, busy, stuck)
       IN  proc' = [proc EXCEPT ![p] =
                      [Frame0 EXCEPT !.op = "cleanupActiveMounts", !.pc = "ret",
                                     !.id = id, !.entries = entries,
                                     !.busy = busy, !.stuck = stuck,
                                     !.err = r.err, !.calls = r.calls]]
    /\ UNCHANGED <<blockMode, setImmutableCfg, fsMergeThreshold, db, seq, wtx, dirs,
                   crashes, crashLeft>>

\* cleanupUpper(upper) = unmountAll(upper): the directory-mode cleanup
CleanupUpper(p, id, busy, stuck) ==
    /\ Begin(p, "other", "")
    /\ LET r == unmountAll(upperPath(id), busy, stuck)
       IN  proc' = [proc EXCEPT ![p] =
                      [Frame0 EXCEPT !.op = "cleanupUpper", !.pc = "ret",
                                     !.id = id, !.busy = busy, !.stuck = stuck,
                                     !.err = r.err, !.calls = r.calls]]
    /\ UNCHANGED <<blockMode, setImmutableCfg, fsMergeThreshold, db, seq, wtx, dirs,
                   crashes, crashLeft>>

\* -------------------------------------------- Remove: deferred cleanup
\* cleanup(s.upperPath(id)): cleanupActiveMounts in block mode, else
\* cleanupUpper
cleanup(block, upper, entries, busy, stuck) ==
    IF block THEN cleanupActiveMounts(upper, entries, busy, stuck)
    ELSE unmountAll(upper, busy, stuck)

\* variant: the error of the cleanup becomes the result of Remove
removeResultSurfaced(err, cerr) == IF cerr # "ok" THEN cerr ELSE err

\* the named result of Remove after its defer: the error of the cleanup is a
\* local of the defer, it goes to the log and not to the result
removeResult(err, cerr) == err

\* the deferred part of Remove after the transaction: the cleanup of the
\* mounts under the upper directory, then os.RemoveAll of each listed
\* directory; failures are logged
RemoveCleanup(p, entries, busy, stuck) ==
    /\ NoReturn
    /\ proc[p].pc = "r_rm"
    /\ dirs' = RemoveEach(dirs, proc[p].removals)
    /\ LET c == cleanup(blockMode, upperPath(proc[p].id), entries, busy, stuck)
       IN  proc' = [proc EXCEPT ![p].pc = "ret",
                                ![p].entries = entries,
                                ![p].busy = busy,
                                ![p].stuck = stuck,
                                ![p].calls = c.calls,
                                ![p].logged = c.err,
                                ![p].err = removeResult(proc[p].err, c.err)]
    /\ UNCHANGED <<blockMode, setImmutableCfg, fsMergeThreshold, db, seq, wtx, overlap, crashes, restart, crashLeft>>

\* the deferred part of Remove when nothing is mounted under the snapshot:
\* lower is empty and every unmount succeeds
RRm(p) == RemoveCleanup(p, <<>>, {}, {})

\* ------------------------------------ generateFsMeta, syscall by syscall
\* s.generateFsMeta(ctx, snap.ParentIDs) for a snapshot created on parent:
\* the threshold test
GfmStart(p, parent) ==
    /\ Begin(p, "other", "")
    /\ parent \in DOMAIN db
    /\ LET fr == [Frame0 EXCEPT !.op = "generateFsMeta", !.parent = parent,
                                !.pids = parents(db, parent)]
       IN  proc' = [proc EXCEPT ![p] =
                      IF fsMetaWanted(Len(fr.pids))
                      THEN [fr EXCEPT !.pc = "gfm_open"]
                      ELSE [fr EXCEPT !.pc = "ret", !.meta = "skipped"]]
    /\ UNCHANGED <<blockMode, setImmutableCfg, fsMergeThreshold, db, seq, wtx, dirs,
                   crashes, crashLeft>>

\* the exclusive create of the placeholder
GfmOpen(p) ==
    /\ NoReturn
    /\ proc[p].pc = "gfm_open"
    /\ IF openPlaceholder(dirs, proc[p].pids[1])
       THEN /\ dirs' = createPlaceholder(dirs, proc[p].pids[1])
            /\ proc' = [proc EXCEPT ![p].pc = "gfm_merge", ![p].meta = "won"]
       ELSE /\ dirs' = dirs
            /\ proc' = [proc EXCEPT ![p].pc = "ret", ![p].meta = "exists"]
    /\ UNCHANGED <<blockMode, setImmutableCfg, fsMergeThreshold, db, seq, wtx, overlap,
                   crashes, restart, crashLeft>>

\* the stats, mkfs.erofs and the rename
GfmMerge(p, g) ==
    /\ NoReturn
    /\ proc[p].pc = "gfm_merge"
    /\ dirs' = mergeLayers(dirs, proc[p].pids, g)
    /\ proc' = [proc EXCEPT ![p].pc = "ret",
                            ![p].meta =
                               IF /\ proc[p].pids[1] \in DOMAIN dirs'
                                  /\ dirs'[proc[p].pids[1]].fsmeta = "ready"
                               THEN "ready" ELSE "failed"]
    /\ UNCHANGED <<blockMode, setImmutableCfg, fsMergeThreshold, db, seq, wtx, overlap,
                   crashes, restart, crashLeft>>

\* ------------------------------------------------- layer-order label
\* strings are sequences of characters.  A digest is valid (digest.Parse
\* accepts it) when it is <algorithm>:<encoded> with a registered algorithm
\* and an encoding of that algorithm's length; "s" stands for the registered
\* algorithm and HexLen for its length
HexLen == 2

Hex == {"a", "1"}

ValidDigest(d) ==
    /\ Len(d) = HexLen + 2
    /\ d[1] = "s"
    /\ d[2] = ":"
    /\ \A i \in 3..Len(d) : d[i] \in Hex

\* json.Marshal of one string: quotes around it, quote and backslash escaped
RECURSIVE jsonEscape(_)
jsonEscape(str) ==
    IF str = <<>> THEN <<>>
    ELSE (IF Head(str) \in {"\"", "\\"} THEN <<"\\", Head(str)>> ELSE <<Head(str)>>)
         \o jsonEscape(Tail(str))

jsonString(str) == <<"\"">> \o jsonEscape(str) \o <<"\"">>

RECURSIVE jsonJoin(_)
jsonJoin(strs) ==
    IF Len(strs) = 1 THEN jsonString(strs[1])
    ELSE jsonString(strs[1]) \o <<",">> \o jsonJoin(Tail(strs))

\* EncodeLayerOrder(digests): "[]" for no digest, else the JSON array of the
\* digests' strings
EncodeLayerOrder(digests) ==
    IF Len(digests) = 0 THEN <<"[", "]">>
    ELSE <<"[">> \o jsonJoin(digests) \o <<"]">>

\* json.Unmarshal into []string: [ok, strs].  st is what the parser is in:
\* "first" after the bracket, "next" after a comma, "str" inside a string,
\* "esc" after a backslash, "after" behind a string
RECURSIVE jsonElements(_, _, _, _, _)
jsonElements(cs, i, st, cur, acc) ==
    IF i > Len(cs) THEN [ok |-> FALSE, strs |-> <<>>]
    ELSE LET c == cs[i]
             bad == [ok |-> FALSE, strs |-> <<>>]
             end == [ok |-> i = Len(cs), strs |-> IF i = Len(cs) THEN acc ELSE <<>>]
         IN  CASE st = "first" ->
                    IF c = "\"" THEN jsonElements(cs, i + 1, "str", <<>>, acc)
                    ELSE IF c = "]" THEN end ELSE bad
               [] st = "next" ->
                    IF c = "\"" THEN jsonElements(cs, i + 1, "str", <<>>, acc) ELSE bad
               [] st = "str" ->
                    IF c = "\"" THEN jsonElements(cs, i + 1, "after", <<>>, Append(acc, cur))
                    ELSE IF c = "\\" THEN jsonElements(cs, i + 1, "esc", cur, acc)
                    ELSE jsonElements(cs, i + 1, "str", Append(cur, c), acc)
               [] st = "esc" ->
                    IF c \in {"\"", "\\"}
                    THEN jsonElements(cs, i + 1, "str", Append(cur, c), acc) ELSE bad
               [] st = "after" ->
                    IF c = "," THEN jsonElements(cs, i + 1, "next", <<>>, acc)
                    ELSE IF c = "]" THEN end ELSE bad

jsonUnmarshal(cs) ==
    IF Len(cs) = 0 \/ cs[1] # "[" THEN [ok |-> FALSE, strs |-> <<>>]
    ELSE jsonElements(cs, 2, "first", <<>>, <<>>)

\* variant: the decoded digests are collected in front of the result
DecodeLayerOrderPrepend(encoded) ==
    IF encoded = <<>> \/ encoded = <<"[", "]">> THEN <<>>
    ELSE LET u == jsonUnmarshal(encoded)
             F[i \in 0..Len(u.strs)] ==
                 IF i = 0 THEN <<>>
                 ELSE IF ValidDigest(u.strs[i]) THEN <<u.strs[i]>> \o F[i - 1]
                 ELSE F[i - 1]
         IN  IF ~u.ok THEN <<>> ELSE F[Len(u.strs)]

\* DecodeLayerOrder(encoded): nil for "" and "[]" and for invalid JSON, else
\* the strings that digest.Parse accepts, in their order
DecodeLayerOrder(encoded) ==
    IF encoded = <<>> \/ encoded = <<"[", "]">> THEN <<>>
    ELSE LET u == jsonUnmarshal(encoded)
         IN  IF ~u.ok THEN <<>> ELSE SelectSeq(u.strs, ValidDigest)

\* a caller encodes a list of digests into the label ...
EncodeCall(p, digests) ==
    /\ Begin(p, "other", "")
    /\ proc' = [proc EXCEPT ![p] =
                  [Frame0 EXCEPT !.op = "EncodeLayerOrder", !.pc = "lo_label",
                                 !.digests = digests,
                                 !.encoded = EncodeLayerOrder(digests)]]
    /\ UNCHANGED <<blockMode, setImmutableCfg, fsMergeThreshold, db, seq, wtx, dirs,
                   crashes, crashLeft>>

\* ... and decodes the label again
DecodeCall(p) ==
    /\ NoReturn
    /\ proc[p].pc = "lo_label"
    /\ proc' = [proc EXCEPT ![p].op = "DecodeLayerOrder", ![p].pc = "ret",
                            ![p].decoded = DecodeLayerOrder(proc[p].encoded)]
    /\ UNCHANGED <<blockMode, setImmutableCfg, fsMergeThreshold, db, seq, wtx, dirs,
                   overlap, crashes, restart, crashLeft>>

\* ---------------------------------------------------- layer blob lookup
\* a file name is a stem and the suffix a glob can match
FileName(stem, suffix) == [stem |-> stem, suffix |-> suffix]

fsmetaFilename == FileName("fsmeta", ".erofs")

\* the names a snapshot directory may hold, in the order filepath.Glob and
\* os.ReadDir list them (sorted)
SortedNames ==
    <<fsmetaFilename, FileName("fsmeta.erofs", ".tmp"), FileName("layer", ".erofs"),
      FileName("rwlayer", ".img"), FileName("sha256-a", ".erofs")>>

PathOf(id, n) == "snapshots/" \o id \o "/" \o n.stem \o n.suffix

\* a blob outside the snapshot directory that a label may name
OutsideBlob == "blobs/sha256-b.erofs"

\* os.Stat(path) succeeds: files are the names in the snapshot directory,
\* outside tells whether OutsideBlob is there
FileExists(path, id, files, outside) ==
    \/ \E n \in files : path = PathOf(id, n)
    \/ path = OutsideBlob /\ outside

\* filepath.Glob(<snapshotDir>/*.erofs): the matching names, sorted
globErofs(files) ==
    SelectSeq(SortedNames, LAMBDA n : n \in files /\ n.suffix = ".erofs")

BlobFound(path) == [err |-> "ok", path |-> path]

BlobNotFound == [err |-> "LayerBlobNotFound", path |-> ""]

\* variant: the first match of the glob is taken whatever its name
findLayerBlobFromInfoAnyMatch(id, label, files, outside) ==
    IF label # "" /\ FileExists(label, id, files, outside) THEN BlobFound(label)
    ELSE IF globErofs(files) # <<>> THEN BlobFound(PathOf(id, globErofs(files)[1]))
    ELSE BlobNotFound

\* findLayerBlobFromInfo(id, info): the path of the layer-blob-path label
\* when it is set and the file is there, else the first match of the glob
\* whose base name is not fsmeta.erofs, else LayerBlobNotFoundError
findLayerBlobFromInfo(id, label, files, outside) ==
    LET matches == SelectSeq(globErofs(files), LAMBDA n : n # fsmetaFilename)
    IN  IF label # "" /\ FileExists(label, id, files, outside) THEN BlobFound(label)
        ELSE IF matches # <<>> THEN BlobFound(PathOf(id, matches[1]))
        ELSE BlobNotFound

FindLayerBlob(p, id, label, files, outside) ==
    /\ Begin(p, "other", "")
    /\ LET r == findLayerBlobFromInfo(id, label, files, outside)
       IN  proc' = [proc EXCEPT ![p] =
                      [Frame0 EXCEPT !.op = "findLayerBlobFromInfo", !.pc = "ret",
                                     !.id = id, !.blobLabel = label, !.files = files,
                                     !.outside = outside,
                                     !.err = r.err, !.found = r.path]]
    /\ UNCHANGED <<blockMode, setImmutableCfg, fsMergeThreshold, db, seq, wtx, dirs,
                   crashes, crashLeft>>

\* ----------------------------------------------------------------- crash
\* the process dies: calls in flight vanish, an open transaction is never
\* committed, the directory tree stays as it is
StagingLeft ==
    {[dir |-> IF proc[q].td # "" THEN proc[q].td ELSE proc[q].path,
      key |-> proc[q].key] :
        q \in {r \in Procs : /\ proc[r].op \in {"Prepare", "View"}
                             /\ proc[r].pc \in {"cs_tx", "cs_commit"}
                             /\ proc[r].key \notin DOMAIN db}}

Crash ==
    /\ NoReturn
    /\ crashes < MaxCrashes
    /\ \E q \in Procs : InFlight(q)
    /\ crashes' = crashes + 1
    /\ restart' = "fresh"
    /\ crashLeft' = StagingLeft
    /\ proc' = [q \in Procs |-> Frame0]
    /\ overlap' = [q \in Procs |-> "none"]
    /\ wtx' = NoTx
    /\ UNCHANGED <<blockMode, setImmutableCfg, fsMergeThreshold, db, seq, dirs>>

\* --------------------------------------------------------- specifications
SeqProcs == {"p1"}

CreateStep(p) ==
    \/ CsTx(p)
    \/ CsCommit(p)
    \/ \E f \in FaultChoices, g \in FaultChoices : CsPost(p, f, g)

CommitStep(p) ==
    \/ \E f \in FaultChoices : CConvert(p, f)
    \/ CTx(p)

CleanupStep(p) ==
    \/ ClList(p)
    \/ ClRm(p)

\* one worker, every input
Next ==
    \/ \E p \in SeqProcs, kind \in {"Active", "View"}, key \in Keys,
          parent \in ParentKeys, labels \in ClientLabels, f \in FaultChoices :
            CsStart(p, kind, key, parent, labels, f)
    \/ \E p \in SeqProcs, name \in Keys, key \in Keys, labels \in ClientLabels :
            CStart(p, name, key, labels)
    \/ \E p \in SeqProcs, key \in Keys : RTx(p, key)
    \/ \E p \in SeqProcs : ClStart(p)
    \/ \E p \in SeqProcs : CreateStep(p)
    \/ \E p \in SeqProcs : CommitStep(p)
    \/ \E p \in SeqProcs : RRm(p)
    \/ \E p \in SeqProcs : CleanupStep(p)
    \/ \E p \in SeqProcs : Return(p)

Spec == Init /\ [][Next]_vars

\* one worker that may crash in the middle of Prepare / View
NextCrash ==
    \/ \E p \in SeqProcs, kind \in {"Active", "View"}, key \in Keys,
          parent \in ParentKeys, labels \in ClientLabels, f \in FaultChoices :
            CsStart(p, kind, key, parent, labels, f)
    \/ \E p \in SeqProcs, key \in Keys : RTx(p, key)
    \/ \E p \in SeqProcs : ClStart(p)
    \/ \E p \in SeqProcs : CreateStep(p)
    \/ \E p \in SeqProcs : RRm(p)
    \/ \E p \in SeqProcs : CleanupStep(p)
    \/ \E p \in SeqProcs : Return(p)
    \/ Crash

SpecCrash == Init /\ [][NextCrash]_vars

\* two workers running Prepare / View / Commit / Remove side by side
ConcCreates ==
    {<<"Active", "b", "">>, <<"Active", "b", "a">>, <<"Active", "x/extract-1", "a">>,
     <<"View", "x/extract-1", "a">>, <<"Active", "x/extract-1", "">>}

ConcCommits == {<<"a", "b">>, <<"x/extract-1", "b">>}

\* the configuration NewSnapshotter builds without options on Linux
\* (defaultWritableSize = 0, setImmutable off)
InitConc ==
    /\ Init
    /\ ~blockMode
    /\ ~setImmutableCfg

NextConc ==
    \/ \E p \in Procs, c \in ConcCreates, labels \in ClientLabels :
            CsStart(p, c[1], c[2], c[3], labels, FALSE)
    \/ \E p \in Procs, c \in ConcCommits, labels \in ClientLabels :
            CStart(p, c[1], c[2], labels)
    \/ \E p \in Procs, key \in Keys : RTx(p, key)
    \/ \E p \in Procs : CreateStep(p)
    \/ \E p \in Procs : CommitStep(p)
    \/ \E p \in Procs : RRm(p)
    \/ \E p \in Procs : Return(p)

SpecConc == InitConc /\ [][NextConc]_vars

\* the mount planner over a store that holds a chain of committed layers
\* l1 <- l2 <- ... and at most one snapshot on it: the snapshot is there from
\* the start, or one Prepare / View creates it
MaxChain == 3

LayerKey(i) == "l" \o IdStr(i)

LayerKeys == {LayerKey(i) : i \in 1..MaxChain}

MountKeys == {"b", "x/extract-1", "extract-1/foo"}

MountLabels == {EmptyLabels, [l \in {extractLabel} |-> "true"]}

\* values of WithFsMergeThreshold
Thresholds == {0, 1}

\* the store after c layers were committed one on the other
ChainDb(c) ==
    [k \in {LayerKey(i) : i \in 1..c} |->
        LET i == CHOOSE j \in 1..c : LayerKey(j) = k
        IN  [id |-> IdStr(i), kind |-> "Committed",
             parent |-> IF i = 1 THEN "" ELSE LayerKey(i - 1),
             labels |-> EmptyLabels]]

\* <root>/snapshots for that chain: the blob of layer `missing` is gone
\* (0: none is), the layers in `merged` have a generated fsmeta.erofs
ChainDirs(c, missing, merged) ==
    [n \in {IdStr(i) : i \in 1..c} |->
        LET i == CHOOSE j \in 1..c : IdStr(j) = n
        IN  [fs |-> TRUE, blob |-> i # missing, immutable |-> FALSE,
             rwimg |-> FALSE,
             fsmeta |-> IF i \in merged THEN "ready" ELSE "none",
             mounted |-> {}, lower |-> <<>>]]

\* the record and directory a Prepare / View of key on the top layer leaves;
\* blob: a differ has written layer.erofs into the extract snapshot
TopRecord(c, kind, key) ==
    [id |-> IdStr(c + 1), kind |-> kind,
     parent |-> IF c = 0 THEN "" ELSE LayerKey(c),
     labels |-> withExtractLabel(key, EmptyLabels)]

TopDir(kind, key, blob) ==
    [fs |-> TRUE, blob |-> blob, immutable |-> FALSE,
     rwimg |-> needsWritableLayer(kind, key), fsmeta |-> "none",
     mounted |-> {}, lower |-> <<>>]

InitMounts ==
    /\ blockMode \in BOOLEAN
    /\ setImmutableCfg = FALSE
    /\ fsMergeThreshold \in Thresholds
    /\ wtx = NoTx
    /\ proc = [p \in Procs |-> Frame0]
    /\ overlap = [p \in Procs |-> "none"]
    /\ crashes = 0
    /\ restart = "none"
    /\ crashLeft = {}
    /\ \E c \in 0..MaxChain, missing \in 0..MaxChain,
          merged \in SUBSET (2..MaxChain) :
        /\ missing <= c
        /\ \A i \in merged : i <= c /\ i > fsMergeThreshold /\ fsMergeThreshold > 0
        /\ \/ /\ db = ChainDb(c)
              /\ dirs = ChainDirs(c, missing, merged)
              /\ seq = c
           \/ \E kind \in {"Active", "View"}, key \in MountKeys, blob \in BOOLEAN :
              /\ blob => (kind = "Active" /\ isExtractKey(key))
              /\ db = PutKey(ChainDb(c), key, TopRecord(c, kind, key))
              /\ dirs = PutDir(ChainDirs(c, missing, merged), IdStr(c + 1),
                               TopDir(kind, key, blob))
              /\ seq = c + 1

NextMounts ==
    \/ \E p \in SeqProcs, kind \in {"Active", "View"}, key \in MountKeys,
          parent \in {""} \cup LayerKeys, labels \in MountLabels, f \in FaultChoices :
            /\ DOMAIN db \subseteq LayerKeys
            /\ CsStart(p, kind, key, parent, labels, f)
    \/ \E p \in SeqProcs : CreateStep(p)
    \/ \E p \in SeqProcs, key \in MountKeys \cup LayerKeys : Mounts(p, key)
    \/ \E p \in SeqProcs, key \in MountKeys, labels \in MountLabels :
            Update(p, key, labels)
    \/ \E p \in SeqProcs : Return(p)

SpecMounts == InitMounts /\ [][NextMounts]_vars

\* the unmount helpers over every outcome of the unmount calls
MaxLowers == 2

\* what <upper>/lower can hold: per name a directory, a file, or nothing
LowerListings ==
    LET names == [i \in 1..MaxLowers |-> IdStr(i - 1)]
        Pick(kinds) ==
            LET F[i \in 0..MaxLowers] ==
                  IF i = 0 THEN <<>>
                  ELSE IF kinds[i] = "none" THEN F[i - 1]
                  ELSE Append(F[i - 1], [name |-> names[i], isDir |-> kinds[i] = "dir"])
            IN  F[MaxLowers]
    IN  {Pick(kinds) : kinds \in [1..MaxLowers -> {"none", "dir", "file"}]}

SeqRange(q) == {q[i] : i \in 1..Len(q)}

NextUnmount ==
    \/ \E p \in SeqProcs :
         /\ proc[p].pc = "done"
         /\ \E i \in 1..MaxIds, entries \in LowerListings :
              \E busy \in SUBSET SeqRange(cleanupTargets(upperPath(IdStr(i)), entries)) :
                \E stuck \in SUBSET busy :
                  CleanupActiveMounts(p, IdStr(i), entries, busy, stuck)
    \/ \E p \in SeqProcs, i \in 1..MaxIds :
         \E busy \in SUBSET {upperPath(IdStr(i))} : \E stuck \in SUBSET busy :
             CleanupUpper(p, IdStr(i), busy, stuck)
    \/ \E p \in SeqProcs : Return(p)

SpecUnmount == Init /\ [][NextUnmount]_vars

\* Remove over a store of parentless Active snapshots, with every outcome
\* of the unmounts of the deferred cleanup
SnapKey(i) == "s" \o IdStr(i)

SnapKeys == {SnapKey(i) : i \in 1..MaxIds}

\* the store and the directories after Prepare(SnapKey(i), "") for i = 1..n
SnapDb(n) ==
    [k \in {SnapKey(i) : i \in 1..n} |->
        [id |-> IdStr(CHOOSE i \in 1..n : SnapKey(i) = k), kind |-> "Active",
         parent |-> "", labels |-> EmptyLabels]]

SnapDirs(n) ==
    [x \in {IdStr(i) : i \in 1..n} |-> [NewDir(TRUE) EXCEPT !.rwimg = blockMode]]

InitRemove ==
    /\ blockMode \in BOOLEAN
    /\ setImmutableCfg \in BOOLEAN
    /\ fsMergeThreshold = 0
    /\ \E n \in 1..MaxIds :
         /\ db = SnapDb(n)
         /\ seq = n
         /\ dirs = SnapDirs(n)
    /\ wtx = NoTx
    /\ proc = [p \in Procs |-> Frame0]
    /\ overlap = [p \in Procs |-> "none"]
    /\ crashes = 0
    /\ restart = "none"
    /\ crashLeft = {}

NextRemove ==
    \/ \E p \in SeqProcs, key \in SnapKeys : RTx(p, key)
    \/ \E p \in SeqProcs :
         /\ proc[p].pc = "r_rm"
         /\ \E entries \in LowerListings :
              \E busy \in SUBSET SeqRange(cleanupTargets(upperPath(proc[p].id), entries))
                         \cup SUBSET {upperPath(proc[p].id)} :
                \E stuck \in SUBSET busy :
                  RemoveCleanup(p, entries, busy, stuck)
    \/ \E p \in SeqProcs : Return(p)

SpecRemove == InitRemove /\ [][NextRemove]_vars

\* two workers whose new snapshots call generateFsMeta over the chain of
\* committed layers
InitFsMeta ==
    /\ InitMounts
    /\ DOMAIN db \subseteq LayerKeys

NextFsMeta ==
    \/ \E p \in Procs, parent \in LayerKeys : GfmStart(p, parent)
    \/ \E p \in Procs : GfmOpen(p)
    \/ \E p \in Procs, g \in FaultChoices : GfmMerge(p, g)
    \/ \E p \in Procs : Return(p)

SpecFsMeta == InitFsMeta /\ [][NextFsMeta]_vars

\* Commit of parentless Active snapshots by a client that may pass labels
CommitLabels == {EmptyLabels, [l \in {immutableLabel} |-> "true"]}

NextCommit ==
    \/ \E p \in SeqProcs, name \in LayerKeys, key \in SnapKeys, labels \in CommitLabels :
            CStart(p, name, key, labels)
    \/ \E p \in SeqProcs : CommitStep(p)
    \/ \E p \in SeqProcs : Return(p)

SpecCommit == InitRemove /\ [][NextCommit]_vars

\* every call that takes a key, on keys that have a record and keys that
\* have none (never created, removed, or renamed by Commit)
LookupKeys == SnapKeys \cup {LayerKey(1)}

NextLookup ==
    \/ \E p \in SeqProcs, key \in LookupKeys : Stat(p, key)
    \/ \E p \in SeqProcs, key \in LookupKeys : Usage(p, key)
    \/ \E p \in SeqProcs, key \in LookupKeys : Mounts(p, key)
    \/ \E p \in SeqProcs, key \in LookupKeys : CStart(p, LayerKey(1), key, EmptyLabels)
    \/ \E p \in SeqProcs : CommitStep(p)
    \/ \E p \in SeqProcs, key \in LookupKeys : RTx(p, key)
    \/ \E p \in SeqProcs : RRm(p)
    \/ \E p \in SeqProcs : Return(p)

SpecLookup == InitRemove /\ [][NextLookup]_vars

\* two workers removing the Active snapshots of the store side by side
NextConcRemove ==
    \/ \E p \in Procs, key \in SnapKeys :
         /\ key \in DOMAIN db
         /\ RTx(p, key)
    \/ \E p \in Procs : RRm(p)
    \/ \E p \in Procs : Return(p)

SpecConcRemove == InitRemove /\ [][NextConcRemove]_vars

\* the layer-order label over lists of digests, valid ones and others
MaxDigests == 3

ValidDigests == {<<"s", ":">> \o h : h \in [1..HexLen -> Hex]}

OtherDigests ==
    {<<>>, <<"s", ":", "a">>, <<"x", ":", "a", "1">>, <<"s", ":", "\"", "a">>,
     <<"s", ":", "a", "\\">>, <<"1", ",", "a">>}

DigestLists ==
    UNION {[1..n -> ValidDigests \cup OtherDigests] : n \in 0..MaxDigests}

NextLayerOrder ==
    \/ \E p \in SeqProcs :
         /\ proc[p].pc = "done"
         /\ \E digests \in DigestLists : EncodeCall(p, digests)
    \/ \E p \in SeqProcs : DecodeCall(p)
    \/ \E p \in SeqProcs : Return(p)

SpecLayerOrder == InitConc /\ [][NextLayerOrder]_vars

\* the blob lookup over every content of the snapshot directory and every
\* value of the label: unset, a file of the directory, a blob elsewhere
NextFindBlob ==
    \/ \E p \in SeqProcs :
         /\ proc[p].pc = "done"
         /\ \E i \in 1..MaxIds, files \in SUBSET SeqRange(SortedNames),
               outside \in BOOLEAN :
              \E label \in {""} \cup {OutsideBlob}
                           \cup {PathOf(IdStr(i), n) : n \in SeqRange(SortedNames)} :
                 FindLayerBlob(p, IdStr(i), label, files, outside)
    \/ \E p \in SeqProcs : Return(p)

SpecFindBlob == InitConc /\ [][NextFindBlob]_vars

\* ------------------------------------------------------------------ claims
CreateOps == {"Prepare", "View"}

HasChild(d, key) == \E k \in DOMAIN d : d[k].parent = key

\* C1: in every reachable state, with Prepare, View, Commit and Remove of two
\* workers interleaved, every record's parent is empty or is the key of an
\* existing record whose kind is Committed.
C1_ParentsResolveToCommitted ==
    \A k \in DOMAIN db :
        db[k].parent # "" =>
            /\ db[k].parent \in DOMAIN db
            /\ db[db[k].parent].kind = "Committed"

\* a Remove of a parent has just been refused while the other worker is in
\* the middle of a call
C1_Witness ==
    \E p \in Procs, q \in Procs :
        /\ p # q
        /\ proc[p].pc = "ret" /\ proc[p].op = "Remove"
        /\ proc[p].err = "FailedPrecondition"
        /\ HasChild(db, proc[p].key)
        /\ InFlight(q)

\* C2: a Remove whose key is a Committed snapshot with at least one child
\* returns an error (FailedPrecondition) and changes neither the metadata
\* store nor any directory: target and children stay as they were.
C2_Step ==
    \A p \in Procs :
        ( /\ proc[p].pc = "done"
          /\ proc'[p].op = "Remove"
          /\ proc'[p].key \in DOMAIN db
          /\ db[proc'[p].key].kind = "Committed"
          /\ HasChild(db, proc'[p].key) )
        => /\ proc'[p].pc = "ret"
           /\ proc'[p].err = "FailedPrecondition"
           /\ db' = db
           /\ dirs' = dirs

C2_RemoveWithChildrenRefused == [][C2_Step]_vars

\* the refused Remove has returned; the child's record and directory exist
C2_Witness ==
    \E p \in Procs, k \in DOMAIN db :
        /\ proc[p].pc = "ret" /\ proc[p].op = "Remove"
        /\ proc[p].err = "FailedPrecondition"
        /\ db[k].parent = proc[p].key
        /\ db[proc[p].key].kind = "Committed"
        /\ db[k].id \in DOMAIN dirs

\* C3: when Prepare or View of a key that had no record returns an error, no
\* record of the key and no staging or final directory of the call remains.
C3_FailedCreateLeavesNothing ==
    \A p \in Procs :
        ( /\ proc[p].pc = "ret" /\ proc[p].op \in CreateOps
          /\ proc[p].err # "ok" /\ proc[p].fresh )
        => /\ proc[p].key \notin DOMAIN db
           /\ (proc[p].td # "" => proc[p].td \notin DOMAIN dirs)
           /\ (proc[p].path # "" => proc[p].path \notin DOMAIN dirs)

\* C4: the transaction of a Prepare or View that names a parent fails with
\* NotFound when the parent has no record and with InvalidArgument when the
\* parent's kind is not Committed; it is rolled back and the store is as before.
C4_Step ==
    \A p \in Procs :
        ( /\ proc[p].pc = "cs_tx"
          /\ proc'[p].pc \notin {"cs_tx", "done"}
          /\ proc[p].parent # ""
          /\ (proc[p].parent \in DOMAIN db => db[proc[p].parent].kind # "Committed") )
        => /\ proc'[p].pc = "ret"
           /\ proc'[p].err = IF proc[p].parent \in DOMAIN db
                             THEN "InvalidArgument" ELSE "NotFound"
           /\ db' = db
           /\ seq' = seq
           /\ wtx' = NoTx

C4_BadParentRejected == [][C4_Step]_vars

\* a View or Prepare on an Active or View parent has returned InvalidArgument
C4_Witness ==
    \E p \in Procs :
        /\ proc[p].pc = "ret" /\ proc[p].op \in CreateOps
        /\ proc[p].err = "InvalidArgument"
        /\ proc[p].parent \in DOMAIN db
        /\ db[proc[p].parent].kind \in {"Active", "View"}
        /\ proc[p].key \notin DOMAIN db

\* C5: of the Commit calls on one Active key whose executions overlap, at most
\* one returns success.
C5_AtMostOneCommit ==
    \A p \in Procs :
        (proc[p].pc = "ret" /\ proc[p].op = "Commit" /\ proc[p].err = "ok")
        => ~proc[p].rival

\* C6: a Prepare of a new key on a Committed parent whose layer is in place,
\* overlapped only by Prepare / View calls on other keys, succeeds; its
\* record, its directory, the parent and the record of every such call that
\* returned success before it are in the store, as Walk then shows.
C6_ConcurrentPreparesSucceed ==
    \A p \in Procs :
        ( /\ proc[p].pc = "ret" /\ proc[p].op = "Prepare"
          /\ proc[p].pre
          /\ overlap[p] \in {"none", "prepares"} )
        => /\ proc[p].err = "ok"
           /\ proc[p].key \in DOMAIN db
           /\ db[proc[p].key].kind = "Active"
           /\ db[proc[p].key].parent = proc[p].parent
           /\ db[proc[p].key].id \in DOMAIN dirs
           /\ proc[p].parent \in DOMAIN db
           /\ (proc[p].peer # "" => proc[p].peer \in DOMAIN db)

\* the second of two overlapping Prepares on the same parent returns:
\* Walk sees the parent and both children
C6_Witness ==
    \E p \in Procs :
        /\ proc[p].pc = "ret" /\ proc[p].op = "Prepare"
        /\ proc[p].pre /\ overlap[p] = "prepares"
        /\ proc[p].err = "ok"
        /\ proc[p].peer \in DOMAIN db
        /\ db[proc[p].peer].parent = proc[p].parent
        /\ WalkCount = 3

\* C7 as the specification states it: no state has the directory of a
\* Prepare or View at its final path while the record is still uncommitted.
C7_RenameAfterCommit ==
    \A p \in Procs :
        ( /\ proc[p].op \in CreateOps /\ proc[p].pc # "ret"
          /\ proc[p].path # "" /\ proc[p].path \in DOMAIN dirs )
        => proc[p].committed

\* C7 (amended): the directory is renamed to its final path inside the write
\* transaction, after the record was created in it and before it commits;
\* while the record is uncommitted the renaming call holds the transaction
\* with the record of that id in it, and a call that returns without having
\* committed leaves neither its staging nor its final directory.
C7_RenameInsideTransaction ==
    \A p \in Procs :
        proc[p].op \in CreateOps =>
            /\ (proc[p].pc = "cs_commit") =>
                  /\ ~proc[p].committed
                  /\ proc[p].path \in DOMAIN dirs
                  /\ wtx.owner = p
                  /\ proc[p].key \in DOMAIN wtx.db
                  /\ wtx.db[proc[p].key].id = proc[p].path
                  /\ proc[p].key \notin DOMAIN db
            /\ (proc[p].pc = "ret" /\ ~proc[p].committed) =>
                  /\ proc[p].err # "ok"
                  /\ (proc[p].td # "" => proc[p].td \notin DOMAIN dirs)
                  /\ (proc[p].path # "" => proc[p].path \notin DOMAIN dirs)

\* the directory is at <root>/snapshots/<id> and the record is not committed
C7_Witness ==
    \E p \in Procs :
        /\ proc[p].op \in CreateOps /\ proc[p].pc = "cs_commit"
        /\ proc[p].path \in DOMAIN dirs
        /\ proc[p].key \notin DOMAIN db

C9_CleanupAfterCrash ==
    \A p \in Procs :
        ( /\ proc[p].pc = "ret" /\ proc[p].op = "Cleanup"
          /\ restart = "first" )
        => \A l \in crashLeft :
              /\ l.dir \notin DOMAIN dirs
              /\ l.key \notin DOMAIN db

\* the crash came after the rename; Cleanup has returned
C9_Witness ==
    \E p \in Procs, l \in crashLeft :
        /\ proc[p].pc = "ret" /\ proc[p].op = "Cleanup"
        /\ restart = "first"
        /\ l.dir \notin TdNames
        /\ l.dir \in proc[p].removals

\* C10: after a successful Commit(name, key) the record of name carries the
\* layer-blob-path label and the blob it names exists.
C10_CommitSetsLayerBlobPath ==
    \A p \in Procs :
        (proc[p].pc = "ret" /\ proc[p].op = "Commit" /\ proc[p].err = "ok")
        => /\ proc[p].name \in DOMAIN db
           /\ layerBlobPathLabel \in DOMAIN db[proc[p].name].labels
           /\ lowerPath(dirs, db[proc[p].name].id)

\* ----------------------------------------------------- mount plan claims
MountCalls == {"Prepare", "View", "Mounts"}

\* worker p has a mount list in hand that Prepare, View or Mounts returned
Returned(p) ==
    proc[p].pc = "ret" /\ proc[p].op \in MountCalls /\ proc[p].err = "ok"

\* the layer a blob path belongs to
IdOfBlob(path, pids) ==
    LET I == {i \in 1..Len(pids) : layerBlobPath(pids[i]) = path}
    IN  IF I = {} THEN "?" ELSE pids[CHOOSE i \in I : TRUE]

IsDevice(o) == o.name = "device"

IsLowerdir(o) == o.name = "lowerdir"

\* the layers one erofs mount shows, uppermost first: its own blob, or the
\* blobs an fsmeta mount names as devices (listed oldest first)
MountLayers(m, pids) ==
    IF m.type # "erofs" THEN <<>>
    ELSE LET dev == SelectSeq(m.options, IsDevice)
         IN  IF Len(dev) = 0 THEN <<IdOfBlob(m.source, pids)>>
             ELSE [k \in 1..Len(dev) |-> IdOfBlob(dev[Len(dev) + 1 - k].path, pids)]

RECURSIVE LayersOfRange(_, _, _, _)
LayersOfRange(ms, i, j, pids) ==
    IF i > j THEN <<>>
    ELSE MountLayers(ms[i], pids) \o LayersOfRange(ms, i + 1, j, pids)

HasOverlay(ms) == Len(ms) > 0 /\ ms[Len(ms)].type = "format/mkdir/overlay"

\* the layers the lowerdir of the overlay mount resolves to, left to right
LowerdirLayers(ms, pids) ==
    LET o == SelectSeq(ms[Len(ms)].options, IsLowerdir)[1]
    IN  LayersOfRange(ms, o.first + 1, o.last + 1, pids)

\* C11: when Prepare, View or Mounts returns an overlay mount for an Active
\* or View snapshot with two or more parents, its lowerdir resolves to the
\* parent layers P0..Pn-1, each exactly once, newest first, whichever parents
\* have a usable fsmeta.erofs.
C11_LowerdirCoversParents ==
    \A p \in Procs :
        ( /\ Returned(p)
          /\ proc[p].kind \in {"Active", "View"}
          /\ Len(proc[p].pids) >= 2
          /\ HasOverlay(proc[p].mounts) )
        => LowerdirLayers(proc[p].mounts, proc[p].pids) = proc[p].pids

\* the mount a differ is handed: a read-write bind of the upper directory
DiffMount(id) == Mount("bind", upperPath(id), <<Flag("rw"), Flag("rbind")>>)

\* C12: for an Active snapshot that carries the extract label, in directory
\* mode and in block mode and with any number of parents, Prepare and Mounts
\* return exactly one mount, the read-write bind of the snapshot's upper
\* directory, never the overlay stack.
C12_ExtractGetsDiffMount ==
    \A p \in Procs :
        ( /\ Returned(p)
          /\ proc[p].op \in {"Prepare", "Mounts"}
          /\ proc[p].kind = "Active"
          /\ isExtractSnapshot(proc[p].labels) )
        => proc[p].mounts = <<DiffMount(proc[p].id)>>

\* C13: the step that makes a new Active or View record visible to readers
\* makes it visible with the extract label "true" when the final segment of
\* its key begins with the unpack prefix, and with just the labels the client
\* passed otherwise (extract-1/foo is not marked); the record in the open
\* write transaction already has its label.
C13_Step ==
    /\ \A k \in DOMAIN db' \ DOMAIN db :
          /\ isExtractKey(k) => isExtractSnapshot(db'[k].labels)
          /\ ~isExtractKey(k) =>
                \E p \in Procs : proc[p].key = k /\ db'[k].labels = proc[p].opts
    /\ \A p \in Procs :
          (wtx'.owner = p /\ isExtractKey(proc'[p].key))
          => isExtractSnapshot(wtx'.db[proc'[p].key].labels)

C13_ExtractLabelSetOnCreate == [][C13_Step]_vars

\* a Prepare with an extract key has returned; Stat shows the label
C13_Witness ==
    \E p \in Procs :
        /\ proc[p].pc = "ret" /\ proc[p].op = "Prepare" /\ proc[p].err = "ok"
        /\ isExtractKey(proc[p].key)
        /\ proc[p].key \in DOMAIN db
        /\ isExtractSnapshot(db[proc[p].key].labels)

\* C14: whatever labels clients pass to Prepare, View and Update, an Active
\* or View record carries the extract label "true" exactly when the core set
\* it for an extract key: no client call marks a snapshot as an extract
\* snapshot or takes the mark away.
C14_ExtractLabelOnlyFromCore ==
    \A k \in DOMAIN db :
        db[k].kind \in {"Active", "View"}
        => (isExtractSnapshot(db[k].labels) <=> isExtractKey(k))

\* C15: View and Mounts of a View snapshot with exactly one parent succeed
\* exactly when the parent's layer.erofs exists, and then return one mount:
\* type erofs, options ro and loop, source the parent's layer blob; no
\* overlay mount.
C15_SingleParentView ==
    \A p \in Procs :
        ( /\ proc[p].pc = "ret" /\ proc[p].op \in {"View", "Mounts"}
          /\ proc[p].kind = "View"
          /\ Len(proc[p].pids) = 1 )
        => LET par == proc[p].pids[1]
               blob == par \in DOMAIN dirs /\ dirs[par].blob
           IN  /\ proc[p].err = "ok" <=> blob
               /\ proc[p].err = "ok" =>
                     proc[p].mounts =
                        <<[type |-> "erofs", source |-> layerBlobPath(par),
                           options |-> <<Flag("ro"), Flag("loop")>>]>>

\* View on a committed layer has returned the erofs mount of that layer
C15_Witness ==
    \E p \in Procs :
        /\ Returned(p) /\ proc[p].op = "View"
        /\ Len(proc[p].pids) = 1
        /\ Len(proc[p].mounts) = 1
        /\ proc[p].mounts[1].type = "erofs"
        /\ proc[p].mounts[1].source = layerBlobPath(db[proc[p].parent].id)

\* C16 as the specification states it: Mounts on a Committed snapshot without
\* parents returns exactly one mount, erofs with ro and loop on the
\* snapshot's own layer.erofs.
C16_CommittedMountsErofs ==
    \A p \in Procs :
        ( /\ proc[p].pc = "ret" /\ proc[p].op = "Mounts"
          /\ proc[p].kind = "Committed" /\ proc[p].pids = <<>> )
        => /\ proc[p].err = "ok"
           /\ proc[p].mounts = <<erofsMount(layerBlobPath(proc[p].id))>>

\* C16 (amended): Mounts on a Committed snapshot without parents whose own
\* layer.erofs exists returns an error and no mount; the blob of a
\* parentless snapshot is mounted for View snapshots only.
C16_CommittedMountsRefused ==
    \A p \in Procs :
        ( /\ proc[p].pc = "ret" /\ proc[p].op = "Mounts"
          /\ proc[p].kind = "Committed" /\ proc[p].pids = <<>>
          /\ proc[p].id \in DOMAIN dirs /\ dirs[proc[p].id].blob )
        => /\ proc[p].err = "NotView"
           /\ proc[p].mounts = <<>>

\* Mounts on the committed base layer, whose blob is in place, has returned
C16_Witness ==
    \E p \in Procs :
        /\ proc[p].pc = "ret" /\ proc[p].op = "Mounts"
        /\ proc[p].kind = "Committed" /\ proc[p].pids = <<>>
        /\ dirs[proc[p].id].blob
        /\ proc[p].err # "ok"

\* C17: for a View snapshot without parents, in directory mode and in block
\* mode alike, View and Mounts return exactly one mount: the read-only bind
\* of the snapshot's upper directory.
C17_ParentlessViewBind ==
    \A p \in Procs :
        ( /\ Returned(p) /\ proc[p].op \in {"View", "Mounts"}
          /\ proc[p].kind = "View" /\ proc[p].pids = <<>> )
        => proc[p].mounts =
              <<Mount("bind", upperPath(proc[p].id), <<Flag("ro"), Flag("rbind")>>)>>

\* the bind mount of <id>/fs/merged, where activeMounts mounts the overlay
MergedBind(id) ==
    Mount("bind", upperPath(id) \o "/merged", <<Flag("rw"), Flag("rbind")>>)

\* C18: in block mode, Prepare and Mounts of an Active snapshot that is no
\* extract snapshot return exactly one concrete mount, the read-write bind
\* of the merged directory the snapshotter has mounted the stack on.
C18_BlockActiveMergedBind ==
    \A p \in Procs :
        ( /\ Returned(p) /\ proc[p].op \in {"Prepare", "Mounts"}
          /\ blockMode
          /\ proc[p].kind = "Active"
          /\ ~isExtractSnapshot(proc[p].labels) )
        => proc[p].mounts = <<MergedBind(proc[p].id)>>

\* ------------------------------------------------------- unmount claims
\* the targets a call tried with a plain unmount, in the order of the calls
PlainTargets(calls) ==
    LET plain == SelectSeq(calls, LAMBDA c : c.flags = "0")
    IN  [i \in 1..Len(plain) |-> plain[i].target]

\* the last target of ts whose unmount fails
LastBusy(ts, busy) ==
    ts[CHOOSE i \in 1..Len(ts) :
         /\ ts[i] \in busy
         /\ \A j \in (i + 1)..Len(ts) : ts[j] \notin busy]

\* C19: cleanupActiveMounts tries merged, every directory lower/<i> and rw,
\* each one also when an earlier unmount failed; it returns nil exactly when
\* every unmount succeeded and otherwise the error of the last target that
\* failed.
C19_CleanupTriesEveryTarget ==
    \A p \in Procs :
        (proc[p].pc = "ret" /\ proc[p].op = "cleanupActiveMounts") =>
            LET ts == cleanupTargets(upperPath(proc[p].id), proc[p].entries)
                failed == SeqRange(ts) \cap proc[p].busy
            IN  /\ PlainTargets(proc[p].calls) = ts
                /\ (proc[p].err = "ok") <=> (failed = {})
                /\ failed # {} =>
                       proc[p].err = UnmountErr(LastBusy(ts, proc[p].busy), "0")

C19_Witness ==
    \E p \in Procs :
        /\ proc[p].pc = "ret" /\ proc[p].op = "cleanupActiveMounts"
        /\ \E e \in SeqRange(proc[p].entries) : e.isDir
        /\ \E e \in SeqRange(proc[p].entries) : ~e.isDir
        /\ upperPath(proc[p].id) \o "/merged" \in proc[p].busy
        /\ upperPath(proc[p].id) \o "/lower/0" \in proc[p].busy
        /\ upperPath(proc[p].id) \o "/rw" \notin proc[p].busy
        /\ proc[p].err = UnmountErr(upperPath(proc[p].id) \o "/lower/0", "0")

\* C20: unmountAll tries a normal unmount first and a detached one
\* (MNT_DETACH) only when the normal one failed; it returns nil exactly when
\* the normal unmount succeeded, and otherwise the error of the normal unmount,
\* whether the lazy unmount succeeded or failed.
C20_UnmountAllKeepsFirstError ==
    \A p \in Procs :
        (proc[p].pc = "ret" /\ proc[p].op = "cleanupUpper") =>
            LET target == upperPath(proc[p].id)
                normalFailed == target \in proc[p].busy
            IN  /\ proc[p].calls =
                     IF normalFailed
                     THEN <<UnmountCall(target, "0"), UnmountCall(target, "MNT_DETACH")>>
                     ELSE <<UnmountCall(target, "0")>>
                /\ (proc[p].err = "ok") <=> ~normalFailed
                /\ normalFailed => proc[p].err = UnmountErr(target, "0")

C20_Witness ==
    \E p \in Procs :
        /\ proc[p].pc = "ret" /\ proc[p].op = "cleanupUpper"
        /\ upperPath(proc[p].id) \in proc[p].busy
        /\ upperPath(proc[p].id) \notin proc[p].stuck
        /\ Len(proc[p].calls) = 2
        /\ proc[p].err = UnmountErr(upperPath(proc[p].id), "0")

\* -------------------------------------------------------- Remove claims
\* a lazy unmount follows each failed unmount of the call
LazyFollowsFailure(p) ==
    \A t \in proc[p].busy :
        (\E i \in 1..Len(proc[p].calls) : proc[p].calls[i] = UnmountCall(t, "0"))
        => \E i \in 1..Len(proc[p].calls) - 1 :
              /\ proc[p].calls[i] = UnmountCall(t, "0")
              /\ proc[p].calls[i + 1] = UnmountCall(t, "MNT_DETACH")

UnmountFailed(p) ==
    \E i \in 1..Len(proc[p].calls) :
        proc[p].calls[i].flags = "0" /\ proc[p].calls[i].target \in proc[p].busy

\* C21 as stated: when an unmount fails during Remove, a lazy unmount is
\* attempted and Remove returns the error of the unmount; it does not report
\* success.
C21_RemoveSurfacesUnmountError ==
    \A p \in Procs :
        ( /\ proc[p].pc = "ret" /\ proc[p].op = "Remove"
          /\ proc[p].committed /\ UnmountFailed(p) )
        => /\ LazyFollowsFailure(p)
           /\ proc[p].err # "ok"

\* C21 amended: when an unmount fails during Remove, a lazy unmount is
\* attempted and the error of the normal unmount reaches the deferred cleanup
\* of Remove, which logs it; Remove itself reports success.
C21_RemoveLogsUnmountError ==
    \A p \in Procs :
        ( /\ proc[p].pc = "ret" /\ proc[p].op = "Remove"
          /\ proc[p].committed /\ UnmountFailed(p) )
        => /\ LazyFollowsFailure(p)
           /\ \E t \in proc[p].busy : proc[p].logged = UnmountErr(t, "0")
           /\ proc[p].err = "ok"

C21_Witness ==
    \E p \in Procs :
        /\ proc[p].pc = "ret" /\ proc[p].op = "Remove"
        /\ proc[p].committed /\ UnmountFailed(p)
        /\ proc[p].busy \ proc[p].stuck # {}
        /\ proc[p].logged # "ok"
        /\ proc[p].key \notin DOMAIN db

\* -------------------------------------------------------- fsmeta claims
FsMetaOf(d, id) == IF id \in DOMAIN d THEN d[id].fsmeta ELSE "none"

Aggregating(p) == proc[p].op = "generateFsMeta" /\ proc[p].pc # "done"

\* C22: of the calls that race for the fsmeta of one newest parent, a call
\* wins the exclusive creation of the placeholder only when the file is not
\* there and nobody else has won, and loses it only when the file is there;
\* mkfs.erofs is run by the winner alone, a loser leaves the directory as it
\* is, and a generated fsmeta is never generated again.
C22_Step ==
    /\ \A p \in Procs :
         (proc[p].meta # "won" /\ proc'[p].meta = "won") =>
             /\ FsMetaOf(dirs, proc[p].pids[1]) = "none"
             /\ \A q \in Procs \ {p} :
                  ~(proc[q].meta = "won" /\ proc[q].pids[1] = proc[p].pids[1])
    /\ \A p \in Procs :
         (proc[p].meta # "exists" /\ proc'[p].meta = "exists") =>
             /\ FsMetaOf(dirs, proc[p].pids[1]) # "none"
             /\ dirs' = dirs
    /\ \A id \in DOMAIN dirs :
         /\ (dirs[id].fsmeta # "ready" /\ FsMetaOf(dirs', id) = "ready") =>
                \E p \in Procs :
                    /\ proc[p].meta = "won" /\ proc[p].pids[1] = id
                    /\ proc'[p].meta = "ready"
         /\ dirs[id].fsmeta = "ready" => FsMetaOf(dirs', id) = "ready"

C22_OnePlaceholderWinner == [][C22_Step]_vars

\* two overlapping calls on one parent: one holds the placeholder, the other
\* has returned without it
C22_Witness ==
    \E p, q \in Procs :
        /\ p # q
        /\ Aggregating(p) /\ Aggregating(q)
        /\ proc[p].pids[1] = proc[q].pids[1]
        /\ proc[p].meta = "won" /\ proc[p].pc = "gfm_merge"
        /\ proc[q].meta = "exists" /\ proc[q].pc = "ret"

\* C23: when the aggregation fails after the placeholder was created, the
\* placeholder is removed: fsmeta.erofs does not exist afterwards.
C23_FailedAggregationRemovesPlaceholder ==
    \A p \in Procs :
        ( /\ proc[p].op = "generateFsMeta" /\ proc[p].pc = "ret"
          /\ proc[p].meta = "failed" )
        => FsMetaOf(dirs, proc[p].pids[1]) = "none"

\* C25: a call of generateFsMeta touches fsmeta.erofs only when the chain is
\* strictly longer than a threshold that is not 0; with a chain as long as
\* the threshold, or a threshold of 0, no placeholder is created and
\* mkfs.erofs is not run.
C25_Step ==
    \A p \in Procs :
        ( /\ proc'[p].op = "generateFsMeta"
          /\ ~(fsMergeThreshold > 0 /\ Len(proc'[p].pids) > fsMergeThreshold) )
        => /\ proc'[p].pc \in {"ret", "done"}
           /\ proc'[p].meta \in {"skipped", "none"}
           /\ dirs' = dirs

C25_AggregationBeyondThreshold == [][C25_Step]_vars

C25_Witness ==
    \E p \in Procs :
        /\ proc[p].op = "generateFsMeta" /\ proc[p].pc = "ret"
        /\ fsMergeThreshold > 0
        /\ Len(proc[p].pids) = fsMergeThreshold
        /\ proc[p].meta = "skipped"
        /\ FsMetaOf(dirs, proc[p].pids[1]) = "none"

\* the returned fsmeta mounts: worker, position in the mount list
FsMetaMounts ==
    {pm \in UNION {{<<p, k>> : k \in 1..Len(proc[p].mounts)} : p \in Procs} :
        /\ Returned(pm[1])
        /\ \E i \in 1..Len(proc[pm[1]].pids) :
              proc[pm[1]].mounts[pm[2]].source = fsMetaPath(proc[pm[1]].pids[i])}

\* the blobs the device= options of a mount name, in the order of the options
DeviceBlobs(m) ==
    LET dev == SelectSeq(m.options, IsDevice)
    IN  [k \in 1..Len(dev) |-> dev[k].path]

\* the parent whose fsmeta.erofs the mount is on (1 is the newest parent)
FsMetaParent(m, pids) == CHOOSE i \in 1..Len(pids) : m.source = fsMetaPath(pids[i])

\* C24 as stated: the device= options of an fsmeta mount name each layer blob
\* that the fsmeta covers exactly once, from the newest layer to the oldest.
C24_DevicesNewestFirst ==
    \A pm \in FsMetaMounts :
        LET pids == proc[pm[1]].pids
            m == proc[pm[1]].mounts[pm[2]]
            i == FsMetaParent(m, pids)
        IN  DeviceBlobs(m) =
              [k \in 1..(Len(pids) + 1 - i) |-> layerBlobPath(pids[i + k - 1])]

\* C24 amended: the device= options of an fsmeta mount name each layer blob
\* that the fsmeta covers exactly once, from the oldest layer to the newest,
\* the order in which generateFsMeta hands the blobs to mkfs.erofs.
C24_DevicesOldestFirst ==
    \A pm \in FsMetaMounts :
        LET pids == proc[pm[1]].pids
            m == proc[pm[1]].mounts[pm[2]]
            i == FsMetaParent(m, pids)
        IN  DeviceBlobs(m) =
              [k \in 1..(Len(pids) + 1 - i) |-> layerBlobPath(pids[Len(pids) + 1 - k])]

C24_Witness ==
    \E pm \in FsMetaMounts :
        /\ Len(DeviceBlobs(proc[pm[1]].mounts[pm[2]])) >= 2
        /\ Len(proc[pm[1]].mounts) = 1

\* ------------------------------------------------------ immutable claim
\* C26: in every reachable state, each Committed snapshot whose immutable
\* label is "true" has a layer.erofs with the IMMUTABLE attribute set.
C26_ImmutableLabelMeansAttribute ==
    \A k \in DOMAIN db :
        ( /\ db[k].kind = "Committed"
          /\ immutableLabel \in DOMAIN db[k].labels
          /\ db[k].labels[immutableLabel] = "true" )
        => /\ db[k].id \in DOMAIN dirs
           /\ dirs[db[k].id].blob
           /\ dirs[db[k].id].immutable

\* ------------------------------------------------------ NotFound claim
KeyedCalls == {"Stat", "Mounts", "Usage", "Commit", "Remove"}

\* C27: Stat, Mounts, Usage, Commit and Remove called with a key that has no
\* record return NotFound at once and leave the metadata store and the
\* contents of <root>/snapshots unchanged.
C27_Step ==
    \A p \in Procs :
        ( /\ proc[p].pc = "done"
          /\ proc'[p].pc # "done"
          /\ proc'[p].op \in KeyedCalls
          /\ proc'[p].key \notin DOMAIN db )
        => /\ proc'[p].pc = "ret"
           /\ proc'[p].err = "NotFound"
           /\ db' = db
           /\ dirs' = dirs
           /\ wtx' = wtx

C27_MissingKeyNotFound == [][C27_Step]_vars

\* a key whose record was removed or renamed is looked up while other
\* snapshots are there
C27_Witness ==
    \E p \in Procs :
        /\ proc[p].pc = "ret"
        /\ proc[p].op \in {"Stat", "Usage"}
        /\ proc[p].key \notin DOMAIN db
        /\ proc[p].err = "NotFound"
        /\ db # [k \in {} |-> 0]
        /\ DOMAIN dirs # {}
        /\ Cardinality(DOMAIN db) < seq

\* ---------------------------------------------- concurrent Remove claim
Quiet == \A p \in Procs : proc[p].pc = "done"

\* C28: concurrent Remove calls on distinct existing Active snapshots without
\* children all succeed under every interleaving; when they are through, Walk
\* visits no snapshot that was removed and none of their directories remains.
C28_ConcurrentRemovesSucceed ==
    /\ \A p \in Procs :
         (proc[p].pc = "ret" /\ proc[p].op = "Remove") =>
             /\ proc[p].err = "ok"
             /\ proc[p].key \notin DOMAIN db
             /\ proc[p].id \notin DOMAIN dirs
    /\ Quiet => DOMAIN dirs = IDMap(db)
    /\ (Quiet /\ WalkCount = 0) => DOMAIN dirs = {}

\* two removals overlapped, the second one returns and nothing is left
C28_Witness ==
    \E p, q \in Procs :
        /\ p # q
        /\ proc[p].pc = "ret" /\ proc[p].op = "Remove" /\ proc[p].err = "ok"
        /\ overlap[p] = "any"
        /\ proc[q].pc = "done"
        /\ WalkCount = 0
        /\ DOMAIN dirs = {}
        /\ seq = MaxIds

\* ---------------------------------------------------- layer-order claim
\* C29: DecodeLayerOrder(EncodeLayerOrder(d)) returns the digests of d in
\* the same order for every list d of valid digests; the empty list encodes
\* to "[]" and decodes to an empty result.
C29_LayerOrderRoundTrip ==
    \A p \in Procs :
        ( /\ proc[p].pc = "ret" /\ proc[p].op = "DecodeLayerOrder"
          /\ \A i \in 1..Len(proc[p].digests) : ValidDigest(proc[p].digests[i]) )
        => /\ proc[p].decoded = proc[p].digests
           /\ proc[p].digests = <<>> => proc[p].encoded = <<"[", "]">>

C29_Witness ==
    \E p \in Procs :
        /\ proc[p].pc = "ret" /\ proc[p].op = "DecodeLayerOrder"
        /\ Len(proc[p].digests) = MaxDigests
        /\ \A i \in 1..Len(proc[p].digests) : ValidDigest(proc[p].digests[i])
        /\ proc[p].digests[1] # proc[p].digests[2]
        /\ proc[p].decoded = proc[p].digests

\* --------------------------------------------------- blob lookup claim
\* position of a name in the sorted listing
NameRank(n) == CHOOSE i \in 1..Len(SortedNames) : SortedNames[i] = n

DefaultSizes == {0, 1}

Configs ==
    [defaultSize : DefaultSizes, enableFsverity : BOOLEAN, setImmutable : BOOLEAN]

Probes == {"ok", "no", "err"}

Hosts ==
    [mkdirAll : BOOLEAN, dtype : Probes, erofs : BOOLEAN, fsverity : Probes,
     metaStore : BOOLEAN, mkdir : BOOLEAN]

GOOS == "linux"

findErofs(h) == h.erofs

checkCompatibility(h) ==
    IF h.dtype = "err" THEN "SupportsDType"
    ELSE IF h.dtype = "no" THEN "NoDType"
    ELSE IF ~findErofs(h) THEN "SkipPlugin"
    ELSE "ok"

Started(e, opened, made) == [err |-> e, ms |-> opened, snapshotsDir |-> made]

NewSnapshotter(c, h) ==
    IF ~h.mkdirAll THEN Started("MkdirAll", FALSE, FALSE)
    ELSE IF c.defaultSize = 0 /\ checkCompatibility(h) # "ok"
         THEN Started(checkCompatibility(h), FALSE, FALSE)
    ELSE IF c.enableFsverity /\ h.fsverity = "err"
         THEN Started("FsverityCheck", FALSE, FALSE)
    ELSE IF c.enableFsverity /\ h.fsverity = "no"
         THEN Started("FsverityUnsupported", FALSE, FALSE)
    ELSE IF c.setImmutable /\ GOOS # "linux"
         THEN Started("ImmutableNotLinux", FALSE, FALSE)
    ELSE IF ~h.metaStore THEN Started("NewMetaStore", FALSE, FALSE)
    ELSE IF ~h.mkdir THEN Started("Mkdir", TRUE, FALSE)
    ELSE Started("ok", TRUE, TRUE)

NewSnapshotterCall(p, c, h) ==
    /\ Begin(p, "other", "")
    /\ LET r == NewSnapshotter(c, h)
       IN  proc' = [proc EXCEPT ![p] =
                      [Frame0 EXCEPT !.op = "NewSnapshotter", !.pc = "ret",
                                     !.config = c, !.host = h, !.err = r.err,
                                     !.ms = r.ms, !.snapshotsDir = r.snapshotsDir]]
    /\ UNCHANGED <<blockMode, setImmutableCfg, fsMergeThreshold, db, seq, wtx, dirs,
                   crashes, crashLeft>>

NextStartup ==
    \/ \E p \in SeqProcs :
         /\ proc[p].pc = "done"
         /\ \E c \in Configs, h \in Hosts : NewSnapshotterCall(p, c, h)
    \/ \E p \in SeqProcs : Return(p)

SpecStartup == InitConc /\ [][NextStartup]_vars

StartupCalls == {p \in Procs : proc[p].op = "NewSnapshotter" /\ proc[p].pc = "ret"}

\* C31: in directory mode and in block mode alike, a root without d_type or
\* a kernel without erofs makes NewSnapshotter return an error (the
\* skip-plugin error when erofs is the one missing) with metadata.db not
\* opened and the snapshots directory not created
C31_StartupChecksInEveryMode ==
    \A p \in StartupCalls :
        LET f == proc[p]
        IN  (f.host.mkdirAll /\ (f.host.dtype # "ok" \/ ~f.host.erofs)) =>
              /\ f.err # "ok"
              /\ ~f.ms
              /\ ~f.snapshotsDir
              /\ (f.host.dtype = "ok" => f.err = "SkipPlugin")

\* the same in directory mode only, where the probes do run
C31_DirectoryModeChecks ==
    \A p \in StartupCalls :
        LET f == proc[p]
        IN  (/\ f.config.defaultSize = 0
             /\ f.host.mkdirAll
             /\ (f.host.dtype # "ok" \/ ~f.host.erofs)) =>
              /\ f.err # "ok"
              /\ ~f.ms
              /\ ~f.snapshotsDir
              /\ (f.host.dtype = "ok" => f.err = "SkipPlugin")

\* block mode on a kernel without erofs starts all the same
C31_BlockModeStartsWithoutErofs ==
    \E p \in StartupCalls :
        /\ proc[p].config.defaultSize > 0
        /\ ~proc[p].host.erofs
        /\ proc[p].err = "ok"
        /\ proc[p].ms
        /\ proc[p].snapshotsDir

\* ------------------------------------------- Prepare beside Remove / Cleanup
\* worker p1 creates a new snapshot while worker p2 removes one of the
\* snapshots of the store or runs Cleanup
NewKeys == {"a", "b"}

NextConcPrepare ==
    \/ \E kind \in {"Active", "View"}, key \in NewKeys, f \in FaultChoices :
            CsStart("p1", kind, key, "", EmptyLabels, f)
    \/ CreateStep("p1")
    \/ \E key \in SnapKeys : RTx("p2", key)
    \/ RRm("p2")
    \/ ClStart("p2")
    \/ CleanupStep("p2")
    \/ \E p \in Procs : Return(p)

SpecConcPrepare == InitRemove /\ [][NextConcPrepare]_vars

CreateReturns == {p \in Procs : proc[p].op \in CreateOps /\ proc[p].pc = "ret"}

\* C32: beside a Remove of another key or a Cleanup, a Prepare/View that
\* returns success has its record in the store and its directory with fs/
\* on disk, and no Prepare/View fails because its staging directory was
\* deleted under it
C32_CreateSurvivesRemoveAndCleanup ==
    \A p \in CreateReturns :
        /\ proc[p].err = "ok" =>
              /\ proc[p].key \in DOMAIN db
              /\ db[proc[p].key].id \in DOMAIN dirs
              /\ dirs[db[proc[p].key].id].fs
        /\ proc[p].err \notin {"Rename", "Chown"}

\* the two halves on their own
C32_SuccessKeepsDirectory ==
    \A p \in CreateReturns :
        proc[p].err = "ok" =>
              /\ proc[p].key \in DOMAIN db
              /\ db[proc[p].key].id \in DOMAIN dirs
              /\ dirs[db[proc[p].key].id].fs

C32_StagingNeverDeleted ==
    \A p \in CreateReturns : proc[p].err \notin {"Rename", "Chown"}

\* C33: under every interleaving of Prepare, Commit and Remove, the
\* directory of every Committed record holds its layer.erofs
C33_CommittedHasLayerBlob ==
    \A k \in DOMAIN db :
        db[k].kind = "Committed" =>
            /\ db[k].id \in DOMAIN dirs
            /\ dirs[db[k].id].blob

\* a Commit has finalized a snapshot that was created after the Commit read
\* its id, and that snapshot has no layer blob
C33_StaleIdCommitted ==
    \E p \in Procs :
        /\ proc[p].op = "Commit" /\ proc[p].pc = "ret" /\ proc[p].err = "ok"
        /\ proc[p].name \in DOMAIN db
        /\ db[proc[p].name].kind = "Committed"
        /\ db[proc[p].name].id # proc[p].id
        /\ ~lowerPath(dirs, db[proc[p].name].id)

\* Commit of the first snapshot on worker p1 beside Remove and a new Prepare
\* of its key on worker p2, over a store of parentless Active snapshots
NextConcCommit ==
    \/ CStart("p1", LayerKey(1), SnapKey(1), EmptyLabels)
    \/ CommitStep("p1")
    \/ RTx("p2", SnapKey(1))
    \/ RRm("p2")
    \/ CsStart("p2", "Active", SnapKey(1), "", EmptyLabels, FALSE)
    \/ CreateStep("p2")
    \/ \E p \in Procs : Return(p)

SpecConcCommit == InitRemove /\ [][NextConcCommit]_vars

\* C34: the conversion step of Commit runs without the metadata write
\* transaction, and the write transaction that finalizes the commit looks
\* for the layer blob first: when the blob is absent the store is left as
\* it is (so the record stays Active) and Commit returns the error of the
\* missing blob instead of the outcome of commit_active
C34_ConvertOutsideTxAndStatFirst ==
    [][\A p \in Procs :
         /\ (proc[p].pc = "c_convert" /\ proc'[p].pc # "c_convert") =>
               /\ wtx.owner # p
               /\ wtx'.owner # p
               /\ db' = db
         /\ (proc[p].pc = "c_tx" /\ proc'[p].pc = "ret") =>
               IF proc[p].id \in DOMAIN dirs /\ dirs[proc[p].id].blob
               THEN proc'[p].err # "BlobMissing"
               ELSE /\ db' = db
                    /\ proc'[p].err = "BlobMissing"
                    /\ ~proc'[p].committed]_vars

\* a Commit whose blob vanished between conversion and write transaction
\* has returned the error, and its key is an Active record
C34_Witness ==
    \E p \in Procs :
        /\ proc[p].op = "Commit" /\ proc[p].pc = "ret"
        /\ proc[p].err = "BlobMissing"
        /\ proc[p].key \in DOMAIN db
        /\ db[proc[p].key].kind = "Active"

\* a conversion is under way while another call holds the write transaction
C34_ConvertBesideWriteTx ==
    \E p \in Procs :
        /\ proc[p].pc = "c_convert"
        /\ wtx.owner \notin {"none", p}

\* the mount plan Mounts(key) returns over the directories d
PlanOf(d, key) ==
    LET g == GetSnapshot(db, key)
    IN  mounts(d, g.kind, g.id, g.pids, db[key].labels)

\* the directories as they were before a Commit converted the upper
\* directory of id
BeforeConversion(d, id) ==
    IF id \in DOMAIN d THEN [d EXCEPT ![id].blob = FALSE, ![id].immutable = FALSE]
    ELSE d

FailedAfterConversion(p) ==
    /\ proc[p].op = "Commit" /\ proc[p].pc = "ret"
    /\ proc[p].converted
    /\ proc[p].err # "ok"

\* C35: when Commit returns an error after its conversion ran, the key is
\* still the Active record of the same snapshot and Mounts(key) returns the
\* plan it returned before the failed Commit
C35_FailedCommitKeepsSnapshotUsable ==
    \A p \in Procs :
        FailedAfterConversion(p) =>
            /\ proc[p].key \in DOMAIN db
            /\ db[proc[p].key].kind = "Active"
            /\ db[proc[p].key].id = proc[p].id
            /\ PlanOf(dirs, proc[p].key)
                 = PlanOf(BeforeConversion(dirs, proc[p].id), proc[p].key)

\* the record half on its own
C35_FailedCommitKeepsRecord ==
    \A p \in Procs :
        FailedAfterConversion(p) =>
            /\ proc[p].key \in DOMAIN db
            /\ db[proc[p].key].kind = "Active"
            /\ db[proc[p].key].id = proc[p].id

\* Commit under a name that is taken has failed after converting, and
\* Mounts of the key is now refused
C35_MountsRefusedAfterFailedCommit ==
    \E p \in Procs :
        /\ FailedAfterConversion(p)
        /\ proc[p].err = "AlreadyExists"
        /\ PlanOf(BeforeConversion(dirs, proc[p].id), proc[p].key).err = "ok"
        /\ PlanOf(dirs, proc[p].key).err = "NotView"

\* the snapshot with this id is a Committed record
CommittedId(d, id) == \E k \in DOMAIN d : d[k].kind = "Committed" /\ d[k].id = id

\* C36: no conversion of Commit writes the layer.erofs of a snapshot that is
\* Committed
C36_NoConversionOntoCommittedBlob ==
    [][\A p \in Procs :
         (proc[p].pc = "c_convert" /\ proc'[p].pc = "c_tx") =>
             ~CommittedId(db, proc[p].id)]_vars

\* a Commit that overlapped the successful one has converted onto the blob
\* of the now Committed snapshot
C36_ConvertedAfterCommit ==
    \E p \in Procs :
        /\ proc[p].op = "Commit" /\ proc[p].pc = "c_tx"
        /\ proc[p].converted /\ proc[p].rival
        /\ CommittedId(db, proc[p].id)

\* ================================================ block-mode mount table
\* dirs[id].mounted is the part of the kernel's mount table below
\* <root>/snapshots/<id>/fs, dirs[id].lower the listing of fs/lower
rwRoot(id) == upperPath(id) \o "/rw"

mergedDir(id) == upperPath(id) \o "/merged"

lowerDir(id, i) == upperPath(id) \o "/lower/" \o IdStr(i)

\* variant: the mount table is not consulted
needsMountAlways(mounted, target) == TRUE

\* mountinfo.Mounted(target) says no
needsMount(mounted, target) == target \notin mounted

\* what a call has done so far: mount table, listing of fs/lower, the
\* targets it mounted in order, the mount calls it made, its error and result
Progress(r) ==
    [mounted |-> r.mounted, lower |-> r.lower, made |-> <<>>, tries |-> 0,
     err |-> "ok", mounts |-> <<>>]

\* mount.All(m, target); failAt is the mount call of this run that fails
mountAll(e, target, failAt, errName) ==
    IF e.tries + 1 = failAt
    THEN [e EXCEPT !.tries = @ + 1, !.err = errName]
    ELSE [e EXCEPT !.tries = @ + 1, !.mounted = @ \cup {target},
                   !.made = Append(@, target)]

\* "if not mounted, mount"
mountIfNeeded(e, target, failAt, errName) ==
    IF needsMount(e.mounted, target) THEN mountAll(e, target, failAt, errName)
    ELSE e

\* mountLowerLayers: os.MkdirAll(lower/<i>), then mount unless mounted
RECURSIVE mountLowerLayers(_, _, _, _, _)
mountLowerLayers(e, id, i, n, failAt) ==
    IF i >= n \/ e.err # "ok" THEN e
    ELSE LET e1 == [e EXCEPT !.lower =
                       IF Len(@) > i THEN @
                       ELSE Append(@, [name |-> IdStr(i), isDir |-> TRUE])]
         IN  mountLowerLayers(mountIfNeeded(e1, lowerDir(id, i), failAt, "MountLower"),
                              id, i + 1, n, failAt)

bindMount(source) == Mount("bind", source, <<Flag("rw"), Flag("rbind")>>)

\* mountOverlay: collectLowerMounts, mountLowerLayers, the overlay on merged
mountOverlay(d, e, id, pids, failAt) ==
    LET lm == lowerMounts(d, pids, 1, <<>>, 0)
    IN  IF lm.err # "ok" THEN [e EXCEPT !.err = lm.err]
        ELSE LET e2 == mountLowerLayers(e, id, 0, Len(lm.mounts), failAt)
                 e3 == IF e2.err # "ok" THEN e2
                       ELSE mountAll(e2, mergedDir(id), failAt, "MountOverlay")
             IN  IF e3.err # "ok" THEN e3
                 ELSE [e3 EXCEPT !.mounts = <<bindMount(mergedDir(id))>>]

\* activeMounts: ensureWritableMount, the merged shortcut, the bind of
\* rw/upper for a snapshot without parents, else mountOverlay
activeMounts(d, id, pids, failAt) ==
    LET e1 == mountIfNeeded(Progress(d[id]), rwRoot(id), failAt, "MountWritable")
    IN  IF e1.err # "ok" THEN e1
        ELSE IF ~needsMount(e1.mounted, mergedDir(id))
        THEN [e1 EXCEPT !.mounts = <<bindMount(mergedDir(id))>>]
        ELSE IF Len(pids) = 0
        THEN [e1 EXCEPT !.mounts = <<bindMount(rwRoot(id) \o "/upper")>>]
        ELSE mountOverlay(d, e1, id, pids, failAt)

\* a call of the executor for the Active snapshot of key
ActiveMounts(p, key, failAt) ==
    /\ Begin(p, "other", key)
    /\ key \in DOMAIN db
    /\ db[key].kind = "Active"
    /\ db[key].id \in DOMAIN dirs
    /\ LET g == GetSnapshot(db, key)
           e == activeMounts(dirs, g.id, g.pids, failAt)
       IN  /\ dirs' = [dirs EXCEPT ![g.id].mounted = e.mounted, ![g.id].lower = e.lower]
           /\ proc' = [proc EXCEPT ![p] =
                         [Frame0 EXCEPT !.op = "activeMounts", !.pc = "ret",
                                        !.key = key, !.id = g.id, !.pids = g.pids,
                                        !.kind = g.kind,
                                        !.mtab0 = dirs[g.id].mounted,
                                        !.made = e.made, !.err = e.err,
                                        !.mounts = e.mounts]]
    /\ UNCHANGED <<blockMode, setImmutableCfg, fsMergeThreshold, db, seq, wtx,
                   crashes, crashLeft>>

\* what the unmounts of a cleanup leave of the mount table: a visited
\* target stays only when its normal and its lazy unmount both failed
afterUnmounts(mounted, targets, stuck) ==
    (mounted \ SeqRange(targets)) \cup (mounted \cap stuck)

\* variant of commitBlock whose cleanup is skipped when the conversion fails
commitBlockCleanupOnSuccess(r, id, busy, stuck, mf, f) ==
    IF ~r.rwimg
    THEN [err |-> IF f THEN "Conversion" ELSE "ok", made |-> <<>>, calls |-> <<>>,
          mounted |-> r.mounted]
    ELSE IF needsMount(r.mounted, rwRoot(id)) /\ mf
    THEN [err |-> "MountWritable", made |-> <<>>, calls |-> <<>>, mounted |-> r.mounted]
    ELSE LET m1 == r.mounted \cup {rwRoot(id)}
             c == cleanupActiveMounts(upperPath(id), r.lower, busy, stuck)
         IN  [err |-> IF f THEN "Conversion" ELSE "ok",
              made |-> IF needsMount(r.mounted, rwRoot(id)) THEN <<rwRoot(id)>> ELSE <<>>,
              calls |-> IF f THEN <<>> ELSE c.calls,
              mounted |-> IF f THEN m1
                          ELSE afterUnmounts(m1, cleanupTargets(upperPath(id), r.lower),
                                             stuck)]

\* commitBlock on the directory record r of snapshot id: without rwlayer.img
\* the upper directory is converted as it is; with it, rw is mounted unless
\* it is a mountpoint, the deferred cleanupActiveMounts is registered, and
\* the conversion runs.  mf: the mount fails; f: the conversion fails
commitBlock(r, id, busy, stuck, mf, f) ==
    IF ~r.rwimg
    THEN [err |-> IF f THEN "Conversion" ELSE "ok", made |-> <<>>, calls |-> <<>>,
          mounted |-> r.mounted]
    ELSE IF needsMount(r.mounted, rwRoot(id)) /\ mf
    THEN [err |-> "MountWritable", made |-> <<>>, calls |-> <<>>, mounted |-> r.mounted]
    ELSE LET m1 == r.mounted \cup {rwRoot(id)}
             c == cleanupActiveMounts(upperPath(id), r.lower, busy, stuck)
         IN  [err |-> IF f THEN "Conversion" ELSE "ok",
              made |-> IF needsMount(r.mounted, rwRoot(id)) THEN <<rwRoot(id)>> ELSE <<>>,
              calls |-> c.calls,
              mounted |-> afterUnmounts(m1, cleanupTargets(upperPath(id), r.lower),
                                        stuck)]

\* the conversion step of Commit with its mounts and unmounts
CConvertBlock(p, busy, stuck, mf, f) ==
    /\ NoReturn
    /\ proc[p].pc = "c_convert"
    /\ proc[p].id \in DOMAIN dirs
    /\ LET id == proc[p].id
           r == commitBlock(dirs[id], id, busy, stuck, mf, f)
           d1 == [dirs EXCEPT ![id].mounted = r.mounted]
           fr == [proc[p] EXCEPT !.mtab0 = dirs[id].mounted, !.made = r.made,
                                 !.busy = busy, !.stuck = stuck, !.calls = r.calls]
       IN  IF r.err = "ok"
           THEN /\ dirs' = withImmutable([d1 EXCEPT ![id].blob = TRUE], id)
                /\ proc' = [proc EXCEPT ![p] =
                              [fr EXCEPT !.pc = "c_tx", !.converted = TRUE]]
           ELSE /\ dirs' = d1
                /\ proc' = [proc EXCEPT ![p] = [fr EXCEPT !.pc = "ret", !.err = r.err]]
    /\ UNCHANGED <<blockMode, setImmutableCfg, fsMergeThreshold, db, seq, wtx, overlap,
                   crashes, restart, crashLeft>>

\* a block-mode store: a chain of committed layers and the Active snapshot
\* "b" on top of it, with its rwlayer.img and nothing mounted
InitExecutor ==
    /\ blockMode = TRUE
    /\ setImmutableCfg = FALSE
    /\ fsMergeThreshold \in Thresholds
    /\ wtx = NoTx
    /\ proc = [p \in Procs |-> Frame0]
    /\ overlap = [p \in Procs |-> "none"]
    /\ crashes = 0
    /\ restart = "none"
    /\ crashLeft = {}
    /\ \E c \in 0..MaxChain, missing \in 0..MaxChain :
        /\ missing <= c
        /\ db = PutKey(ChainDb(c), "b", TopRecord(c, "Active", "b"))
        /\ dirs = PutDir(ChainDirs(c, missing, {}), IdStr(c + 1),
                         TopDir("Active", "b", FALSE))
        /\ seq = c + 1

\* the mount calls of one run of the executor: rw, the lowers, merged
MountCallsPerRun == 1..(MaxChain + 2)

NextExecutor ==
    \/ \E p \in SeqProcs, failAt \in {0} \cup MountCallsPerRun :
            ActiveMounts(p, "b", failAt)
    \/ \E p \in SeqProcs : Return(p)

SpecExecutor == InitExecutor /\ [][NextExecutor]_vars

\* the executor and Commit on the same snapshot
NextBlockCommit ==
    \/ \E p \in SeqProcs, failAt \in {0} \cup MountCallsPerRun :
            ActiveMounts(p, "b", failAt)
    \/ \E p \in SeqProcs : CStart(p, "a", "b", EmptyLabels)
    \/ \E p \in SeqProcs :
         /\ proc[p].pc = "c_convert"
         /\ proc[p].id \in DOMAIN dirs
         /\ \E busy \in SUBSET (dirs[proc[p].id].mounted \cup {rwRoot(proc[p].id)}) :
              \E stuck \in SUBSET busy, mf \in FaultChoices, f \in FaultChoices :
                 CConvertBlock(p, busy, stuck, mf, f)
    \/ \E p \in SeqProcs : CTx(p)
    \/ \E p \in SeqProcs : Return(p)

SpecBlockCommit == InitExecutor /\ [][NextBlockCommit]_vars

\* a Commit whose conversion step mounted rwlayer.img at rw or found rw
\* mounted and reused it
ConvertedOverRw(p) ==
    /\ proc[p].op = "Commit"
    /\ proc[p].pc \in {"c_tx", "ret"}
    /\ \/ proc[p].made = <<rwRoot(proc[p].id)>>
       \/ rwRoot(proc[p].id) \in proc[p].mtab0

SnapshotTargets(id) == cleanupTargets(upperPath(id), dirs[id].lower)

\* C37 as stated: after such a conversion step nothing of the snapshot is
\* mounted any more, whether the conversion succeeded or failed, and rw was
\* mounted by the step only when it was no mountpoint
C37_ConversionLeavesNothingMounted ==
    \A p \in Procs :
        ConvertedOverRw(p) =>
            /\ dirs[proc[p].id].mounted = {}
            /\ (rwRoot(proc[p].id) \in proc[p].mtab0 => proc[p].made = <<>>)
            /\ Len(proc[p].made) <= 1

\* C37: after such a conversion step, succeeded or failed, an unmount of
\* merged, of every lower/<i> and of rw has been tried, and a target is
\* still mounted only when its normal and its lazy unmount both failed; rw
\* was mounted by the step only when it was no mountpoint
C37_ConversionUnmountsWhatItCan ==
    \A p \in Procs :
        ConvertedOverRw(p) =>
            /\ PlainTargets(proc[p].calls) = SnapshotTargets(proc[p].id)
            /\ dirs[proc[p].id].mounted = proc[p].stuck
            /\ (rwRoot(proc[p].id) \in proc[p].mtab0 => proc[p].made = <<>>)
            /\ Len(proc[p].made) <= 1

\* a failed conversion over the full stack a run of the executor had left
\* mounted: everything is unmounted when the step returns
C37_Witness ==
    \E p \in Procs :
        /\ ConvertedOverRw(p)
        /\ proc[p].err = "Conversion"
        /\ {rwRoot(proc[p].id), mergedDir(proc[p].id), lowerDir(proc[p].id, 0)}
             \subseteq proc[p].mtab0
        /\ proc[p].busy # {}
        /\ dirs[proc[p].id].mounted = {}

ExecutorReturns == {p \in Procs : proc[p].op = "activeMounts" /\ proc[p].pc = "ret"}

\* C38: a run of the block-mode executor, also one that follows a run that
\* failed part-way, mounts no target that was a mountpoint when the run
\* began and no target twice, and a run that finds merged mounted returns
\* the merged bind without mounting anything
C38_ExecutorMountsEachTargetOnce ==
    \A p \in ExecutorReturns :
        LET f == proc[p]
        IN  /\ \A i \in 1..Len(f.made) :
                 /\ f.made[i] \notin f.mtab0
                 /\ \A j \in 1..Len(f.made) : f.made[j] = f.made[i] => j = i
            /\ dirs[f.id].mounted = f.mtab0 \cup SeqRange(f.made)
            /\ mergedDir(f.id) \in f.mtab0 =>
                 /\ f.made = <<>>
                 /\ f.err = "ok"
                 /\ f.mounts = <<bindMount(mergedDir(f.id))>>

\* a run after one that failed at the second lower: rw and lower/0 are
\* kept, lower/1 and merged are mounted
C38_Witness ==
    \E p \in ExecutorReturns :
        /\ proc[p].mtab0 = {rwRoot(proc[p].id), lowerDir(proc[p].id, 0)}
        /\ proc[p].made = <<lowerDir(proc[p].id, 1), mergedDir(proc[p].id)>>
        /\ proc[p].err = "ok"

\* a run over the full stack returns the merged bind and mounts nothing
C38_MergedShortcut ==
    \E p \in ExecutorReturns :
        /\ mergedDir(proc[p].id) \in proc[p].mtab0
        /\ proc[p].made = <<>>
        /\ proc[p].mounts = <<bindMount(mergedDir(proc[p].id))>>

\* ------------------------------------------ Remove of committed layers
\* the store after c layers were committed one on the other by a snapshotter
\* that sets IMMUTABLE when it is configured to; the blob of layer `missing`
\* is gone
ImmutableChainDirs(c, missing) ==
    [n \in {IdStr(i) : i \in 1..c} |->
        [ChainDirs(c, missing, {})[n] EXCEPT
            !.immutable = setImmutableCfg /\ ChainDirs(c, missing, {})[n].blob]]

InitRemoveCommitted ==
    /\ blockMode \in BOOLEAN
    /\ setImmutableCfg \in BOOLEAN
    /\ fsMergeThreshold = 0
    /\ wtx = NoTx
    /\ proc = [p \in Procs |-> Frame0]
    /\ overlap = [p \in Procs |-> "none"]
    /\ crashes = 0
    /\ restart = "none"
    /\ crashLeft = {}
    /\ \E c \in 1..MaxChain, missing \in 0..MaxChain :
        /\ missing <= c
        /\ db = ChainDb(c)
        /\ dirs = ImmutableChainDirs(c, missing)
        /\ seq = c

NextRemoveCommitted ==
    \/ \E p \in SeqProcs, key \in LayerKeys, f \in FaultChoices : RemoveTx(p, key, f)
    \/ \E p \in SeqProcs : RRm(p)
    \/ \E p \in SeqProcs : Return(p)

SpecRemoveCommitted == InitRemoveCommitted /\ [][NextRemoveCommitted]_vars

\* C39: Remove of a Committed snapshot deletes the snapshot directory only
\* with the IMMUTABLE attribute of its layer.erofs cleared, and when
\* clearing fails it returns an error with the record kept and nothing
\* deleted
C39_ClearBeforeDelete ==
    [][\A p \in Procs :
         /\ ( /\ proc[p].pc = "r_rm" /\ proc'[p].pc = "ret"
              /\ proc[p].kind = "Committed"
              /\ proc[p].id \in DOMAIN dirs ) =>
                 /\ ~dirs[proc[p].id].immutable
                 /\ proc[p].id \notin DOMAIN dirs'
         /\ ( /\ proc[p].pc = "done" /\ proc'[p].op = "Remove"
              /\ proc'[p].key \in DOMAIN db
              /\ db[proc'[p].key].kind = "Committed"
              /\ ~HasChild(db, proc'[p].key)
              /\ \/ proc'[p].fault
                 \/ db[proc'[p].key].id \notin DOMAIN dirs
                 \/ ~dirs[db[proc'[p].key].id].blob ) =>
                 /\ proc'[p].pc = "ret"
                 /\ proc'[p].err = "ClearImmutable"
                 /\ db' = db
                 /\ dirs' = dirs]_vars

\* with IMMUTABLE configured, a Committed layer has been removed: record
\* and directory are gone
C39_Witness ==
    \E p \in Procs :
        /\ setImmutableCfg
        /\ proc[p].op = "Remove" /\ proc[p].pc = "ret" /\ proc[p].err = "ok"
        /\ proc[p].kind = "Committed"
        /\ proc[p].key \notin DOMAIN db
        /\ proc[p].id \notin DOMAIN dirs

\* clearing was refused: the layer is still there, attribute and all
C39_ClearRefused ==
    \E p \in Procs :
        /\ proc[p].op = "Remove" /\ proc[p].pc = "ret" /\ proc[p].fault
        /\ proc[p].err = "ClearImmutable"
        /\ proc[p].key \in DOMAIN db
        /\ dirs[db[proc[p].key].id].immutable

\* a step of a Commit call whose key names a snapshot that is not Active
CommitStepOnNonActive(p) ==
    /\ proc'[p].op = "Commit"
    /\ proc[p].pc # proc'[p].pc
    /\ proc'[p].key \in DOMAIN db
    /\ db[proc'[p].key].kind # "Active"

\* C40: Commit on a key whose snapshot is a View or Committed returns an
\* error, and none of its steps changes the store or anything under
\* <root>/snapshots: no layer blob appears, no attribute changes
C40_CommitOfNonActiveChangesNothing ==
    [][\A p \in Procs :
         CommitStepOnNonActive(p) =>
             /\ db' = db
             /\ dirs' = dirs
             /\ (proc'[p].pc = "ret" => proc'[p].err # "ok")]_vars

\* the part that holds: such a Commit returns an error and the store is
\* left as it is
C40_CommitOfNonActiveFails ==
    [][\A p \in Procs :
         CommitStepOnNonActive(p) =>
             /\ db' = db
             /\ (proc'[p].pc = "ret" => proc'[p].err # "ok")]_vars

\* Commit on a View has failed and left a layer.erofs in the directory of
\* the View
C40_ViewConverted ==
    \E p \in Procs :
        /\ proc[p].op = "Commit" /\ proc[p].pc = "ret"
        /\ proc[p].err = "FailedPrecondition"
        /\ proc[p].converted
        /\ proc[p].key \in DOMAIN db
        /\ db[proc[p].key].kind = "View"
        /\ dirs[db[proc[p].key].id].blob
====
